---------------------------- MODULE Spec2Model ----------------------------
(* A model of the two facades of pdfparse: HTMLToPDFConverter             *)
(* (src/src/pdfparse/html_to_pdf.py) and PDFToTextParser                  *)
(* (src/src/pdfparse/pdf_to_text.py).  Python strings are sequences of    *)
(* one-character strings, so that lower(), strip() and the regular        *)
(* expressions of the code are computed character by character.           *)
EXTENDS Integers, Sequences, FiniteSets, TLC

VARIABLES parser, converter, pdf_file, output_file, res, kept

vars == <<parser, converter, pdf_file, output_file, res, kept>>

-----------------------------------------------------------------------------
(* Characters and str.lower()                                             *)

UpperLetters == <<"A","B","C","D","E","F","G","H","I","J","K","L","M",
                  "N","O","P","Q","R","S","T","U","V","W","X","Y","Z">>

LowerLetters == <<"a","b","c","d","e","f","g","h","i","j","k","l","m",
                  "n","o","p","q","r","s","t","u","v","w","x","y","z">>

IsUpper(c) == \E i \in DOMAIN UpperLetters : UpperLetters[i] = c

IsLower(c) == \E i \in DOMAIN LowerLetters : LowerLetters[i] = c

LowerChar(c) ==
    IF IsUpper(c)
    THEN LowerLetters[CHOOSE i \in DOMAIN UpperLetters : UpperLetters[i] = c]
    ELSE c

\* str.lower() on an ASCII string
Lower(s) == [i \in DOMAIN s |-> LowerChar(s[i])]

\* whitespace as str.strip() and the regex class \s see it
IsSpace(c) == c \in {" ", "\n", "\t"}

-----------------------------------------------------------------------------
(* Backend names                                                          *)

S_pypdf      == <<"p","y","p","d","f">>
S_pdfplumber == <<"p","d","f","p","l","u","m","b","e","r">>
S_pymupdf    == <<"p","y","m","u","p","d","f">>
S_weasyprint == <<"w","e","a","s","y","p","r","i","n","t">>
S_xhtml2pdf  == <<"x","h","t","m","l","2","p","d","f">>
S_reportlab  == <<"r","e","p","o","r","t","l","a","b">>

\* supported_backends of PDFToTextParser.validate_backend
ParserBackends == {S_pypdf, S_pdfplumber, S_pymupdf}

\* supported_backends of HTMLToPDFConverter.validate_backend
ConverterBackends == {S_weasyprint, S_xhtml2pdf, S_reportlab}

\* The backend arguments a caller passes to either constructor: the
\* supported names in several spellings, names of the other facade, and
\* strings that are no backend at all.
BackendArgs ==
    ParserBackends \cup ConverterBackends \cup
    { <<"P","y","P","D","F">>, <<"P","Y","P","D","F">>,
      <<"P","d","f","P","l","u","m","b","e","r">>,
      <<"P","y","M","u","P","D","F">>, <<"P","Y","M","U","P","D","F">>,
      <<"W","E","A","S","Y","P","R","I","N","T">>,
      <<"W","e","a","s","y","P","r","i","n","t">>,
      <<"X","H","T","M","L","2","P","D","F">>,
      <<"R","e","p","o","r","t","L","a","b">>,
      <<"i","n","v","a","l","i","d">>, <<"I","N","V","A","L","I","D">>,
      <<>>, <<"p","y","p","d","f"," ">>, <<"p","d","f">> }

-----------------------------------------------------------------------------
(* Bounds                                                                 *)

\* the largest number of pages of a PDF document
MaxPages == 2

-----------------------------------------------------------------------------
(* The text cleaning pass                                                 *)

RECURSIVE LStrip(_)
\* str.lstrip(): drop the leading whitespace
LStrip(s) ==
    IF s # <<>> /\ IsSpace(Head(s)) THEN LStrip(Tail(s)) ELSE s

RECURSIVE RStrip(_)
\* str.rstrip(): drop the trailing whitespace
RStrip(s) ==
    IF s # <<>> /\ IsSpace(s[Len(s)])
    THEN RStrip(SubSeq(s, 1, Len(s) - 1))
    ELSE s

\* str.strip()
Strip(s) == RStrip(LStrip(s))

RECURSIVE CollapseWs_spacesOnly(_)
\* the substitution with the pattern " +": runs of the space character
\* only
CollapseWs_spacesOnly(s) ==
    IF s = <<>> THEN <<>>
    ELSE IF Head(s) = " " /\ Len(s) >= 2 /\ s[2] = " "
         THEN CollapseWs_spacesOnly(Tail(s))
         ELSE <<Head(s)>> \o CollapseWs_spacesOnly(Tail(s))

RECURSIVE CollapseWs(_)
\* re.sub(r"\s+", " ", text)
CollapseWs(s) ==
    IF s = <<>> THEN <<>>
    ELSE IF IsSpace(Head(s))
         THEN <<" ">> \o CollapseWs(LStrip(Tail(s)))
         ELSE <<Head(s)>> \o CollapseWs(Tail(s))

IsSentenceEnd(c) == c \in {".", "!", "?"}

RECURSIVE SentenceSpace(_)
\* re.sub(r"([.!?])\s*([A-Z])", r"\1 \2", text)
SentenceSpace(s) ==
    IF s = <<>> THEN <<>>
    ELSE LET rest == LStrip(Tail(s))
         IN  IF IsSentenceEnd(Head(s)) /\ rest # <<>> /\ IsUpper(Head(rest))
             THEN <<Head(s), " ", Head(rest)>> \o SentenceSpace(Tail(rest))
             ELSE <<Head(s)>> \o SentenceSpace(Tail(s))

RECURSIVE WordSpace_firstOnly(_)
\* the substitution applied to the first boundary only
WordSpace_firstOnly(s) ==
    IF s = <<>> THEN <<>>
    ELSE IF Len(s) >= 2 /\ IsLower(s[1]) /\ IsUpper(s[2])
         THEN <<s[1], " ", s[2]>> \o Tail(Tail(s))
         ELSE <<Head(s)>> \o WordSpace_firstOnly(Tail(s))

RECURSIVE WordSpace(_)
\* re.sub(r"([a-z])([A-Z])", r"\1 \2", text)
WordSpace(s) ==
    IF s = <<>> THEN <<>>
    ELSE IF Len(s) >= 2 /\ IsLower(s[1]) /\ IsUpper(s[2])
         THEN <<s[1], " ", s[2]>> \o WordSpace(Tail(Tail(s)))
         ELSE <<Head(s)>> \o WordSpace(Tail(s))

\* the value None where a string is expected: a one-element sequence
\* whose element is no character
None == <<"None">>

\* PDFToTextParser._clean_text: "if not text" holds for None and for ""
clean_text(text) ==
    IF text = None \/ text = <<>> THEN <<>>
    ELSE WordSpace(SentenceSpace(Strip(CollapseWs(text))))

-----------------------------------------------------------------------------
(* PDF documents as the parsing engines see them                          *)

\* the raw text an engine returns for a page
RawTexts ==
    { <<>>, <<" ">>, <<"a","B","\n">> }

\* a page: its raw text, or an engine that throws while extracting it
PageVals ==
    { [throws |-> FALSE, text |-> t] : t \in RawTexts } \cup
    { [throws |-> TRUE, text |-> <<>>] }

PageSeqs == UNION { [1..n -> PageVals] : n \in 0..MaxPages }

S_Title  == <<"/","T","i","t","l","e">>
S_Author == <<"A","u","t","h","o","r">>

\* a metadata value: a string, None, or an engine object str() renders
MetaStr(s) == [kind |-> "str", s |-> s]
MetaNone   == [kind |-> "none", s |-> <<>>]

\* the engine-native metadata of a document, as (key, value) entries in
\* iteration order; the empty sequence is a document without metadata
Metas ==
    { <<>>,
      << [key |-> S_Title, val |-> MetaStr(<<"T">>)] >>,
      << [key |-> S_Title, val |-> MetaStr(<<"T">>)],
         [key |-> S_Author, val |-> MetaNone] >> }

\* how the engine behaves on the document: "ok"; "import_fails" (the
\* engine library cannot be imported); "open_fails" (opening the document
\* throws, as for a file that is no PDF); "count_fails" (reading the page
\* list or page count throws); "meta_fails" (reading the metadata throws
\* at entry fail_at)
Doc(status, pages, meta, fail_at) ==
    [status |-> status, pages |-> pages, meta |-> meta, fail_at |-> fail_at]

NoDoc == Doc("open_fails", <<>>, <<>>, 0)

\* the documents whose engine works, with every sequence of pages
PageDocs == { Doc("ok", ps, <<>>, 0) : ps \in PageSeqs }

OnePage == << [throws |-> FALSE, text |-> <<"a","B","\n">>] >>

\* one-page documents with every metadata and every engine failure
MetaDocs ==
    { Doc(st, OnePage, m, 0) :
        st \in {"ok", "import_fails", "open_fails", "count_fails"},
        m \in Metas } \cup
    UNION { { Doc("meta_fails", OnePage, m, k) : k \in {1, Len(m)} } :
            m \in Metas \ {<<>>} }

S_dot_pdf == <<".","p","d","f">>
S_dot_PDF == <<".","P","D","F">>
S_dot_txt == <<".","t","x","t">>

\* the file at the path given to the extraction operations
Files ==
    { [exists |-> FALSE, suffix |-> sfx, doc |-> NoDoc] :
        sfx \in {S_dot_pdf, S_dot_txt} } \cup
    { [exists |-> TRUE, suffix |-> S_dot_pdf, doc |-> d] : d \in PageDocs } \cup
    { [exists |-> TRUE, suffix |-> sfx, doc |-> d] :
        sfx \in {S_dot_pdf, S_dot_PDF, S_dot_txt}, d \in MetaDocs }

\* the pages argument: None (given = FALSE) or a list of integers
PageSelectors ==
    LET V == (0 - 1)..MaxPages
    IN  { [given |-> FALSE, list |-> <<>>] } \cup
        { [given |-> TRUE, list |-> l] :
            l \in {<<>>} \cup { <<p>> : p \in V } \cup
                  { <<p, q>> : p \in V, q \in V } }

-----------------------------------------------------------------------------
(* Results of a call                                                      *)

\* a call that returned: text, by_page, metadata or matches hold the value
Return(field, value) ==
    [outcome |-> "return", exc |-> "", leaked |-> FALSE, engine |-> TRUE,
     text |-> IF field = "text" THEN value ELSE <<>>,
     by_page |-> IF field = "by_page" THEN value ELSE <<>>,
     metadata |-> IF field = "metadata" THEN value ELSE <<>>,
     matches |-> IF field = "matches" THEN value ELSE <<>>]

\* a call that raised exception exc; engine tells whether a parsing engine
\* was invoked, leaked whether a document handle was left open
Raise(exc, engine, leaked) ==
    [outcome |-> "raise", exc |-> exc, leaked |-> leaked, engine |-> engine,
     text |-> <<>>, by_page |-> <<>>, metadata |-> <<>>, matches |-> <<>>]

-----------------------------------------------------------------------------
(* extract_text_from_file                                                 *)

Digits == <<"0","1","2","3","4","5","6","7","8","9">>

RECURSIVE IntToStr(_)
\* str(n) for n >= 0
IntToStr(n) ==
    IF n < 10 THEN <<Digits[n + 1]>>
    ELSE IntToStr(n \div 10) \o <<Digits[(n % 10) + 1]>>

\* the header numbered with the zero-indexed page number
PageBlock_zeroIndexed(page_num, text) ==
    <<"-","-","-"," ","P","a","g","e"," ">> \o IntToStr(page_num) \o
    <<" ","-","-","-","\n">> \o text

\* f"--- Page {page_num + 1} ---\n{text}"
PageBlock(page_num, text) ==
    <<"-","-","-"," ","P","a","g","e"," ">> \o IntToStr(page_num + 1) \o
    <<" ","-","-","-","\n">> \o text

RECURSIVE Join(_, _)
\* sep.join(parts)
Join(parts, sep) ==
    IF parts = <<>> THEN <<>>
    ELSE IF Len(parts) = 1 THEN parts[1]
    ELSE parts[1] \o sep \o Join(Tail(parts), sep)

\* the filter without its lower bound
InRange_noLowerBound(p, total_pages) == p < total_pages

InRange(p, total_pages) == 0 <= p /\ p < total_pages

\* pages_to_process: range(total_pages) when pages is None, otherwise
\* [p for p in pages if 0 <= p < total_pages]
PagesToProcess(sel, total_pages) ==
    IF ~sel.given
    THEN [i \in 1..total_pages |-> i - 1]
    ELSE LET Keep(p) == InRange(p, total_pages)
         IN  SelectSeq(sel.list, Keep)

\* the body of the per-page try of _extract_with_pypdf and
\* _extract_with_pymupdf: the blocks (none or one) the page appends to
\* text_content; an exception is logged and the page skipped
PageContent(page, page_num, clean) ==
    IF page.throws THEN <<>>
    ELSE LET text == IF clean THEN clean_text(page.text) ELSE page.text
         IN  IF Strip(text) # <<>> THEN <<PageBlock(page_num, text)>>
             ELSE <<>>

\* the same for _extract_with_pdfplumber, which guards against an empty
\* text before cleaning and before strip()
PageContentPlumber(page, page_num, clean) ==
    IF page.throws THEN <<>>
    ELSE LET text == IF clean
                     THEN (IF page.text # <<>> THEN clean_text(page.text)
                           ELSE <<>>)
                     ELSE page.text
         IN  IF text # <<>> /\ Strip(text) # <<>>
             THEN <<PageBlock(page_num, text)>>
             ELSE <<>>

\* pdf_reader.pages[page_num], pdf.pages[page_num], pdf_document[page_num]:
\* a negative index counts from the end, an index out of range raises
PageAt(doc, page_num) ==
    LET n == Len(doc.pages)
    IN  IF 0 <= page_num /\ page_num < n THEN doc.pages[page_num + 1]
        ELSE IF 0 - n <= page_num /\ page_num < 0
             THEN doc.pages[n + page_num + 1]
        ELSE [throws |-> TRUE, text |-> <<>>]

RECURSIVE TextContent(_, _, _, _)
\* text_content after the loop over pages_to_process
TextContent(doc, todo, clean, plumber) ==
    IF todo = <<>> THEN <<>>
    ELSE LET page_num == Head(todo)
             page == PageAt(doc, page_num)
         IN  (IF plumber THEN PageContentPlumber(page, page_num, clean)
              ELSE PageContent(page, page_num, clean))
             \o TextContent(doc, Tail(todo), clean, plumber)

S_sep == <<"\n", "\n">>

\* the page loop without its try/except: a page that throws ends the call
_extract_with_pypdf_noTry(doc, sel, clean) ==
    IF doc.status = "import_fails" THEN Raise("ImportError", FALSE, FALSE)
    ELSE IF doc.status \in {"open_fails", "count_fails"}
         THEN Raise("EngineError", TRUE, FALSE)
    ELSE LET todo == PagesToProcess(sel, Len(doc.pages))
         IN  IF \E i \in DOMAIN todo : PageAt(doc, todo[i]).throws
             THEN Raise("EngineError", TRUE, FALSE)
             ELSE Return("text", Join(TextContent(doc, todo, clean, FALSE), S_sep))

_extract_with_pypdf(doc, sel, clean) ==
    IF doc.status = "import_fails" THEN Raise("ImportError", FALSE, FALSE)
    ELSE IF doc.status \in {"open_fails", "count_fails"}
         THEN Raise("EngineError", TRUE, FALSE)
    ELSE Return("text",
           Join(TextContent(doc, PagesToProcess(sel, Len(doc.pages)),
                            clean, FALSE), S_sep))

_extract_with_pdfplumber(doc, sel, clean) ==
    IF doc.status = "import_fails" THEN Raise("ImportError", FALSE, FALSE)
    ELSE IF doc.status \in {"open_fails", "count_fails"}
         THEN Raise("EngineError", TRUE, FALSE)
    ELSE Return("text",
           Join(TextContent(doc, PagesToProcess(sel, Len(doc.pages)),
                            clean, TRUE), S_sep))

\* fitz.open and page_count come before the try/finally that closes the
\* document
_extract_with_pymupdf(doc, sel, clean) ==
    IF doc.status = "import_fails" THEN Raise("ImportError", FALSE, FALSE)
    ELSE IF doc.status = "open_fails" THEN Raise("EngineError", TRUE, FALSE)
    ELSE IF doc.status = "count_fails" THEN Raise("EngineError", TRUE, TRUE)
    ELSE Return("text",
           Join(TextContent(doc, PagesToProcess(sel, Len(doc.pages)),
                            clean, FALSE), S_sep))

\* pdf_path.suffix.lower() != ".pdf"
NotPdfSuffix(file) == Lower(file.suffix) # S_dot_pdf

\* the extension checked before the existence
extract_text_from_file_suffixFirst(backend, file, sel, clean) ==
    IF NotPdfSuffix(file) THEN Raise("ValueError", FALSE, FALSE)
    ELSE IF ~file.exists THEN Raise("FileNotFoundError", FALSE, FALSE)
    ELSE IF backend = S_pypdf THEN _extract_with_pypdf(file.doc, sel, clean)
    ELSE IF backend = S_pdfplumber
         THEN _extract_with_pdfplumber(file.doc, sel, clean)
    ELSE _extract_with_pymupdf(file.doc, sel, clean)

\* PDFToTextParser.extract_text_from_file: the two checks, the dispatch
\* on self.backend, and the except clause that logs and re-raises
extract_text_from_file(backend, file, sel, clean) ==
    IF ~file.exists THEN Raise("FileNotFoundError", FALSE, FALSE)
    ELSE IF NotPdfSuffix(file) THEN Raise("ValueError", FALSE, FALSE)
    ELSE IF backend = S_pypdf THEN _extract_with_pypdf(file.doc, sel, clean)
    ELSE IF backend = S_pdfplumber
         THEN _extract_with_pdfplumber(file.doc, sel, clean)
    ELSE IF backend = S_pymupdf
         THEN _extract_with_pymupdf(file.doc, sel, clean)
    ELSE Raise("ValueError", FALSE, FALSE)

-----------------------------------------------------------------------------
(* extract_text_by_page                                                   *)

\* the page text stored as the engine gave it, whatever clean_text says
PageText_uncleaned(page, clean) ==
    IF page.throws THEN <<>> ELSE page.text

\* page_texts[page_num] in _extract_by_page_pypdf and
\* _extract_by_page_pymupdf: the (cleaned) text, "" when the page throws
PageText(page, clean) ==
    IF page.throws THEN <<>>
    ELSE IF clean THEN clean_text(page.text) ELSE page.text

\* the same in _extract_by_page_pdfplumber: text or ""
PageTextPlumber(page, clean) ==
    IF page.throws THEN <<>>
    ELSE IF clean
         THEN (IF page.text # <<>> THEN clean_text(page.text) ELSE <<>>)
         ELSE page.text

\* a page that throws is left out of page_texts
_extract_by_page_pypdf_omit(doc, clean) ==
    IF doc.status = "import_fails" THEN Raise("ImportError", FALSE, FALSE)
    ELSE IF doc.status \in {"open_fails", "count_fails"}
         THEN Raise("EngineError", TRUE, FALSE)
    ELSE Return("by_page",
           [n \in { k \in 0..(Len(doc.pages) - 1) : ~doc.pages[k + 1].throws } |->
               PageText(doc.pages[n + 1], clean)])

\* an engine failure turned into an empty mapping
_extract_by_page_pypdf_swallow(doc, clean) ==
    IF doc.status \in {"import_fails", "open_fails", "count_fails"}
    THEN Return("by_page", <<>>)
    ELSE Return("by_page",
           [n \in 0..(Len(doc.pages) - 1) |-> PageText(doc.pages[n + 1], clean)])

_extract_by_page_pypdf(doc, clean) ==
    IF doc.status = "import_fails" THEN Raise("ImportError", FALSE, FALSE)
    ELSE IF doc.status \in {"open_fails", "count_fails"}
         THEN Raise("EngineError", TRUE, FALSE)
    ELSE Return("by_page",
           [n \in 0..(Len(doc.pages) - 1) |-> PageText(doc.pages[n + 1], clean)])

_extract_by_page_pdfplumber(doc, clean) ==
    IF doc.status = "import_fails" THEN Raise("ImportError", FALSE, FALSE)
    ELSE IF doc.status \in {"open_fails", "count_fails"}
         THEN Raise("EngineError", TRUE, FALSE)
    ELSE Return("by_page",
           [n \in 0..(Len(doc.pages) - 1) |->
               PageTextPlumber(doc.pages[n + 1], clean)])

\* here page_count is read inside the try/finally that closes the document
_extract_by_page_pymupdf(doc, clean) ==
    IF doc.status = "import_fails" THEN Raise("ImportError", FALSE, FALSE)
    ELSE IF doc.status \in {"open_fails", "count_fails"}
         THEN Raise("EngineError", TRUE, FALSE)
    ELSE Return("by_page",
           [n \in 0..(Len(doc.pages) - 1) |-> PageText(doc.pages[n + 1], clean)])

\* PDFToTextParser.extract_text_by_page: the existence check (there is no
\* extension check), the dispatch, and the except clause that re-raises
extract_text_by_page(backend, file, clean) ==
    IF ~file.exists THEN Raise("FileNotFoundError", FALSE, FALSE)
    ELSE IF backend = S_pypdf THEN _extract_by_page_pypdf(file.doc, clean)
    ELSE IF backend = S_pdfplumber
         THEN _extract_by_page_pdfplumber(file.doc, clean)
    ELSE IF backend = S_pymupdf
         THEN _extract_by_page_pymupdf(file.doc, clean)
    ELSE Raise("ValueError", FALSE, FALSE)

-----------------------------------------------------------------------------
(* get_pdf_metadata                                                       *)

S_pages == <<"p","a","g","e","s">>

\* metadata[key] = value on a dict
Put(metadata, key, value) ==
    [k \in DOMAIN metadata \cup {key} |->
        IF k = key THEN value ELSE metadata[k]]

RECURSIVE LStripSlash(_)
\* key.lstrip("/")
LStripSlash(key) ==
    IF key # <<>> /\ Head(key) = "/" THEN LStripSlash(Tail(key)) ELSE key

\* str(value) if value else ""
MetaValue(val) ==
    IF val.kind = "none" \/ val.s = <<>> THEN MetaStr(<<>>) ELSE MetaStr(val.s)

RECURSIVE MetaEntries(_, _, _, _)
\* the dict after the loop over metadata.items() has stored entries
\* i..last
MetaEntries(meta, i, last, strip_slash) ==
    IF i > last THEN <<>>
    ELSE Put(MetaEntries(meta, i, last - 1, strip_slash),
             IF strip_slash THEN LStripSlash(meta[last].key) ELSE meta[last].key,
             MetaValue(meta[last].val))

RECURSIVE EngineDict(_, _)
\* the dict PyMuPDF hands out: its values are not converted
EngineDict(meta, last) ==
    IF last = 0 THEN <<>>
    ELSE Put(EngineDict(meta, last - 1), meta[last].key, meta[last].val)

\* the metadata dict dropped when the engine fails
MetaGathered_emptyOnFailure(doc, strip_slash) ==
    IF doc.status # "ok" THEN <<>>
    ELSE Put(MetaEntries(doc.meta, 1, Len(doc.meta), strip_slash),
             S_pages, MetaStr(IntToStr(Len(doc.pages))))

\* the metadata gathered by the pypdf and pdfplumber branches: a failure
\* leaves what was stored before it in the dict that is returned
MetaGathered(doc, strip_slash) ==
    IF doc.status \in {"import_fails", "open_fails"} THEN <<>>
    ELSE IF doc.status = "meta_fails"
         THEN MetaEntries(doc.meta, 1, doc.fail_at - 1, strip_slash)
    ELSE IF doc.status = "count_fails"
         THEN MetaEntries(doc.meta, 1, Len(doc.meta), strip_slash)
    ELSE Put(MetaEntries(doc.meta, 1, Len(doc.meta), strip_slash),
             S_pages, MetaStr(IntToStr(Len(doc.pages))))

\* the pymupdf branch: metadata is rebound to the engine's own dict
MetaPymupdf(doc) ==
    IF doc.status \in {"import_fails", "open_fails", "meta_fails"} THEN <<>>
    ELSE IF doc.status = "count_fails" THEN EngineDict(doc.meta, Len(doc.meta))
    ELSE Put(EngineDict(doc.meta, Len(doc.meta)),
             S_pages, MetaStr(IntToStr(Len(doc.pages))))

\* PDFToTextParser.get_pdf_metadata: every engine exception is caught and
\* logged, and the dict is returned as it is
get_pdf_metadata(backend, file) ==
    IF ~file.exists THEN Raise("FileNotFoundError", FALSE, FALSE)
    ELSE LET r == Return("metadata",
                     IF backend = S_pypdf THEN MetaGathered(file.doc, TRUE)
                     ELSE IF backend = S_pdfplumber
                          THEN MetaGathered(file.doc, FALSE)
                     ELSE IF backend = S_pymupdf THEN MetaPymupdf(file.doc)
                     ELSE <<>>)
         IN  [r EXCEPT !.engine = file.doc.status # "import_fails"]

-----------------------------------------------------------------------------
(* search_text                                                            *)

\* the width of the context on each side of a match
ContextWidth == 50

Max(a, b) == IF a >= b THEN a ELSE b
Min(a, b) == IF a <= b THEN a ELSE b

\* text[start:end] for 0 <= start <= end <= len(text)
Slice(text, start, end) == SubSeq(text, start + 1, end)

\* the characters the pattern language gives a meaning to
RegexSpecial == {".", "\\"}

\* the query used as the pattern without escaping
Escape_asGiven(query) == query

RECURSIVE Escape(_)
\* re.escape(query): a backslash before every special character
Escape(query) ==
    IF query = <<>> THEN <<>>
    ELSE (IF Head(query) \in RegexSpecial THEN <<"\\", Head(query)>>
          ELSE <<Head(query)>>) \o Escape(Tail(query))

RECURSIVE Compile(_)
\* re.compile(pattern): one element per character to match; an escaped
\* character stands for itself, a bare dot for any character but newline
Compile(pattern) ==
    IF pattern = <<>> THEN <<>>
    ELSE IF Head(pattern) = "\\" /\ Len(pattern) >= 2
         THEN <<[any |-> FALSE, c |-> pattern[2]]>> \o
              Compile(SubSeq(pattern, 3, Len(pattern)))
    ELSE IF Head(pattern) = "."
         THEN <<[any |-> TRUE, c |-> "."]>> \o Compile(Tail(pattern))
    ELSE <<[any |-> FALSE, c |-> Head(pattern)]>> \o Compile(Tail(pattern))

\* pattern = re.compile(re.escape(query), flags)
Pattern(query) == Compile(Escape(query))

\* the flag re.IGNORECASE set for the case-sensitive search only
ElemMatches_flagInverted(e, ch, case_sensitive) ==
    IF e.any THEN ch # "\n"
    ELSE IF case_sensitive THEN LowerChar(ch) = LowerChar(e.c)
    ELSE ch = e.c

\* one pattern element against one character; without case_sensitive the
\* flag re.IGNORECASE is set
ElemMatches(e, ch, case_sensitive) ==
    IF e.any THEN ch # "\n"
    ELSE IF case_sensitive THEN ch = e.c
    ELSE LowerChar(ch) = LowerChar(e.c)

\* the compiled pattern re.escape(query) matches at offset i of text
MatchesAt(text, query, case_sensitive, i) ==
    LET pat == Pattern(query)
    IN  /\ i + Len(pat) <= Len(text)
        /\ \A k \in 1..Len(pat) : ElemMatches(pat[k], text[i + k], case_sensitive)

RECURSIVE FindIter_overlapping(_, _, _, _)
\* a scan that resumes one character after the start of a match
FindIter_overlapping(text, query, case_sensitive, i) ==
    IF i + Len(Pattern(query)) > Len(text) THEN <<>>
    ELSE IF MatchesAt(text, query, case_sensitive, i)
         THEN <<i>> \o FindIter_overlapping(text, query, case_sensitive, i + 1)
         ELSE FindIter_overlapping(text, query, case_sensitive, i + 1)

RECURSIVE FindIter(_, _, _, _)
\* the start offsets pattern.finditer(text) yields from offset i on: a
\* left-to-right scan for non-overlapping matches; an empty match is
\* followed by a scan from the next offset
FindIter(text, query, case_sensitive, i) ==
    IF i + Len(Pattern(query)) > Len(text) THEN <<>>
    ELSE IF MatchesAt(text, query, case_sensitive, i)
         THEN <<i>> \o FindIter(text, query, case_sensitive,
                                i + Max(Len(Pattern(query)), 1))
         ELSE FindIter(text, query, case_sensitive, i + 1)

\* the context kept as the window is cut, without .strip()
Context_unstripped(text, start, end) == Slice(text, start, end)

\* context = text[start:end].strip()
Context(text, start, end) == Strip(Slice(text, start, end))

\* the record appended for the match at offset pos of the page's text
MatchRecord(page_num, text, query, pos) ==
    LET match_end == pos + Len(Pattern(query))
        start == Max(0, pos - ContextWidth)
        end == Min(Len(text), match_end + ContextWidth)
    IN  [page |-> page_num + 1,
         position |-> pos,
         context |-> Context(text, start, end),
         match |-> Slice(text, pos, match_end)]

\* the empty query answered with no match
PageMatches_emptyQueryIgnored(page_num, text, query, case_sensitive) ==
    IF text = <<>> \/ query = <<>> THEN <<>>
    ELSE LET found == FindIter(text, query, case_sensitive, 0)
         IN  [k \in 1..Len(found) |-> MatchRecord(page_num, text, query, found[k])]

\* the matches of one page; a page with empty text is skipped
PageMatches(page_num, text, query, case_sensitive) ==
    IF text = <<>> THEN <<>>
    ELSE LET found == FindIter(text, query, case_sensitive, 0)
         IN  [k \in 1..Len(found) |-> MatchRecord(page_num, text, query, found[k])]

RECURSIVE AllMatches(_, _, _, _)
\* the loop over page_texts.items(), pages 0..last
AllMatches(page_texts, last, query, case_sensitive) ==
    IF last < 0 THEN <<>>
    ELSE AllMatches(page_texts, last - 1, query, case_sensitive) \o
         PageMatches(last, page_texts[last], query, case_sensitive)

\* the search made in the page texts as the engine gave them
search_text_uncleaned(backend, file, query, case_sensitive) ==
    LET r == extract_text_by_page(backend, file, FALSE)
    IN  IF r.outcome = "raise" THEN r
        ELSE Return("matches",
               AllMatches(r.by_page, Cardinality(DOMAIN r.by_page) - 1,
                          query, case_sensitive))

\* PDFToTextParser.search_text: whatever extract_text_by_page raises
\* propagates
search_text(backend, file, query, case_sensitive) ==
    LET r == extract_text_by_page(backend, file, TRUE)
    IN  IF r.outcome = "raise" THEN r
        ELSE Return("matches",
               AllMatches(r.by_page, Cardinality(DOMAIN r.by_page) - 1,
                          query, case_sensitive))

-----------------------------------------------------------------------------
(* The conversion facade.  HTML is a sequence of tokens: a tag opener, a  *)
(* whitespace character or a piece of text.                               *)

HtmlInputs ==
    { <<"<p>", "x">>,
      <<"<!DOCTYPE", "<html", "<p>", "x">>,
      <<"<html", "<p>", "x">>,
      <<"\n", " ", "<!DOCTYPE", "<html", "<p>", "x">>,
      <<"<!doctype", "<html", "<p>", "x">>,
      <<>> }

OptionNames ==
    {"css_file", "css_string", "page_size", "margin_top", "margin_right",
     "margin_bottom", "margin_left", "base_url"}

\* **options: the names given and their values
Options(keys, val) == [keys |-> keys, val |-> val]

\* options.get(name, default)
Get(options, name, default) ==
    IF name \in options.keys THEN options.val[name] ELSE default

\* the option mappings a caller passes; the CSS file "missing.css" cannot
\* be opened
OptionSets ==
    LET V == [n \in OptionNames |->
                 CASE n = "css_file" -> "ok.css"
                   [] n = "css_string" -> "p{}"
                   [] n = "page_size" -> "letter"
                   [] n = "base_url" -> "file:///x/"
                   [] OTHER -> "1in"]
    IN  { Options(ks, V) :
            ks \in { {}, {"css_file"}, {"css_string"},
                     {"css_file", "css_string"}, {"margin_top"},
                     {"page_size"}, {"base_url"}, {"margin_left", "css_string"} } }
        \cup { Options({"css_file"}, [V EXCEPT !["css_file"] = "missing.css"]) }

\* what the rendering engine does when the delegate reaches it: "ok";
\* "import_fails" (its library cannot be imported); "raises" (it throws
\* before the output is touched); "raises_writing" (it throws after it
\* began to write the output); "err_status" (xhtml2pdf only: CreatePDF
\* returns a status with err set)
EngineOutcomes(backend) ==
    {"ok", "import_fails", "raises", "raises_writing"} \cup
    (IF backend = S_xhtml2pdf THEN {"err_status"} ELSE {})

\* the result of a delegate or of the facade: value is the boolean
\* returned, delegates the delegate routines that were invoked, out the
\* state of the output file afterwards, engine_input what xhtml2pdf's
\* CreatePDF is given
ConvResult(outcome, exc, value, delegate, out, engine_input) ==
    [outcome |-> outcome, exc |-> exc, value |-> value,
     delegates |-> IF delegate = "" THEN <<>> ELSE <<delegate>>,
     out |-> out, engine_input |-> engine_input]

CssFileFails(options) ==
    "css_file" \in options.keys /\ options.val["css_file"] = "missing.css"

_convert_with_weasyprint(html_content, out, options, engine) ==
    IF engine = "import_fails"
    THEN ConvResult("raise", "ImportError", FALSE, "weasyprint", out, <<>>)
    ELSE IF CssFileFails(options) \/ engine = "raises"
         THEN ConvResult("return", "", FALSE, "weasyprint", out, <<>>)
    ELSE IF engine = "raises_writing"
         THEN ConvResult("return", "", FALSE, "weasyprint", "partial", <<>>)
    ELSE ConvResult("return", "", TRUE, "weasyprint", "complete", <<>>)

StartsWith(s, token) == s # <<>> /\ Head(s) = token

\* html_content after the CSS of css_file, else of css_string, is
\* prepended as a style block
WithCss(html_content, options) ==
    IF "css_file" \in options.keys
    THEN <<"<style>", options.val["css_file"], "</style>">> \o html_content
    ELSE IF "css_string" \in options.keys
         THEN <<"<style>", options.val["css_string"], "</style>">> \o html_content
    ELSE html_content

\* not html_content.strip().startswith("<!DOCTYPE") and
\* not html_content.strip().startswith("<html")
NeedsWrapper(html_content) ==
    /\ ~StartsWith(Strip(html_content), "<!DOCTYPE")
    /\ ~StartsWith(Strip(html_content), "<html")

\* the synthesized document around html_content
Wrapper(html_content, options) ==
    <<"<!DOCTYPE", "<html", "<head>", "<style>", "@page",
      Get(options, "margin_top", "0.75in"),
      Get(options, "margin_right", "0.75in"),
      Get(options, "margin_bottom", "0.75in"),
      Get(options, "margin_left", "0.75in"),
      "</style>", "</head>", "<body>">> \o html_content \o
    <<"</body>", "</html>">>

\* what _convert_with_xhtml2pdf hands to pisa.CreatePDF
PisaInput(html_content, options) ==
    LET h == WithCss(html_content, options)
    IN  IF NeedsWrapper(h) THEN Wrapper(h, options) ELSE h

\* the output file is opened for writing before CreatePDF is called
_convert_with_xhtml2pdf(html_content, out, options, engine) ==
    IF engine = "import_fails"
    THEN ConvResult("raise", "ImportError", FALSE, "xhtml2pdf", out, <<>>)
    ELSE IF CssFileFails(options)
         THEN ConvResult("return", "", FALSE, "xhtml2pdf", out, <<>>)
    ELSE IF engine \in {"raises", "raises_writing", "err_status"}
         THEN ConvResult("return", "", FALSE, "xhtml2pdf", "partial",
                         PisaInput(html_content, options))
    ELSE ConvResult("return", "", TRUE, "xhtml2pdf", "complete",
                    PisaInput(html_content, options))

_convert_with_reportlab(html_content, out, options, engine) ==
    IF engine = "import_fails"
    THEN ConvResult("raise", "ImportError", FALSE, "reportlab", out, <<>>)
    ELSE IF engine = "raises"
         THEN ConvResult("return", "", FALSE, "reportlab", out, <<>>)
    ELSE IF engine = "raises_writing"
         THEN ConvResult("return", "", FALSE, "reportlab", "partial", <<>>)
    ELSE ConvResult("return", "", TRUE, "reportlab", "complete", <<>>)

\* the dispatch of convert_html_string on self.backend; no branch is
\* taken, and None is returned, for any other backend
Dispatch(backend, html_content, out, options, engine) ==
    IF backend = S_weasyprint
    THEN _convert_with_weasyprint(html_content, out, options, engine)
    ELSE IF backend = S_xhtml2pdf
         THEN _convert_with_xhtml2pdf(html_content, out, options, engine)
    ELSE IF backend = S_reportlab
         THEN _convert_with_reportlab(html_content, out, options, engine)
    ELSE ConvResult("return_none", "", FALSE, "", out, <<>>)

\* the dispatch without the try/except around it
convert_html_string_noTry(backend, html_content, out, options, engine) ==
    Dispatch(backend, html_content, out, options, engine)

\* HTMLToPDFConverter.convert_html_string: an exception of the delegate
\* is printed and False returned
convert_html_string(backend, html_content, out, options, engine) ==
    LET r == Dispatch(backend, html_content, out, options, engine)
    IN  IF r.outcome = "raise"
        THEN [r EXCEPT !.outcome = "return", !.exc = "", !.value = FALSE]
        ELSE r

\* the input file of convert_html_file: missing, not decodable as UTF-8,
\* or holding HTML
HtmlFiles ==
    { [exists |-> FALSE, decodable |-> FALSE, content |-> <<>>],
      [exists |-> TRUE, decodable |-> FALSE, content |-> <<>>] } \cup
    { [exists |-> TRUE, decodable |-> TRUE, content |-> h] : h \in HtmlInputs }

\* a missing input reported as a failed conversion
convert_html_file_returnsFalse(backend, html_file, out, options, engine) ==
    IF ~html_file.exists \/ ~html_file.decodable \/ "base_url" \in options.keys
    THEN ConvResult("return", "", FALSE, "", out, <<>>)
    ELSE convert_html_string(backend, html_file.content, out,
             Options(options.keys \cup {"base_url"}, options.val), engine)

\* HTMLToPDFConverter.convert_html_file: the existence check, the read,
\* and the call of convert_html_string with base_url=... and **options,
\* which Python refuses when options names base_url too
convert_html_file(backend, html_file, out, options, engine) ==
    IF ~html_file.exists
    THEN ConvResult("raise", "FileNotFoundError", FALSE, "", out, <<>>)
    ELSE IF ~html_file.decodable
         THEN ConvResult("raise", "UnicodeDecodeError", FALSE, "", out, <<>>)
    ELSE IF "base_url" \in options.keys
         THEN ConvResult("raise", "TypeError", FALSE, "", out, <<>>)
    ELSE convert_html_string(backend, html_file.content, out,
             Options(options.keys \cup {"base_url"}, options.val), engine)

-----------------------------------------------------------------------------
(* Construction                                                           *)

\* the backend stored as it was given
NormalizeBackend_asGiven(backend) == backend

\* self.backend = backend.lower()
NormalizeBackend(backend) == Lower(backend)

\* PDFToTextParser.validate_backend: "ok", or the exception it raises;
\* fitz_ok tells whether "import fitz" succeeds
parser_validate_backend(backend, fitz_ok) ==
    IF backend \notin ParserBackends THEN "ValueError"
    ELSE IF backend = S_pymupdf /\ ~fitz_ok THEN "ImportError"
    ELSE "ok"

\* HTMLToPDFConverter.validate_backend: its try block imports nothing
converter_validate_backend(backend) ==
    IF backend \notin ConverterBackends THEN "ValueError" ELSE "ok"

\* the outcome of a constructor
Constructed(backend, validation) ==
    [outcome |-> IF validation = "ok" THEN "return" ELSE "raise",
     exc |-> IF validation = "ok" THEN "" ELSE validation,
     backend |-> backend]

\* PDFToTextParser.__init__
parser_init(backend, fitz_ok) ==
    Constructed(NormalizeBackend(backend),
                parser_validate_backend(NormalizeBackend(backend), fitz_ok))

\* HTMLToPDFConverter.__init__
converter_init(backend) ==
    Constructed(NormalizeBackend(backend),
                converter_validate_backend(NormalizeBackend(backend)))

-----------------------------------------------------------------------------
(* The command line: pdf2text                                             *)

IsDigit(c) == \E d \in 1..10 : Digits[d] = c

DigitValue(c) == (CHOOSE d \in 1..10 : Digits[d] = c) - 1

RECURSIVE DecimalValue(_)
\* the number a non-empty string of digits denotes
DecimalValue(s) ==
    IF Len(s) = 1 THEN DigitValue(s[1])
    ELSE 10 * DecimalValue(SubSeq(s, 1, Len(s) - 1)) + DigitValue(s[Len(s)])

\* int(part) taking a leading or trailing blank for a malformed literal
IntOf_strict(part) ==
    LET ok == part # <<>> /\ \A i \in 1..Len(part) : IsDigit(part[i])
    IN  [ok |-> ok, n |-> IF ok THEN DecimalValue(part) ELSE 0]

\* int(part): whitespace around the literal is ignored and a sign may
\* precede the digits; ok is FALSE where int() raises ValueError
IntOf(part) ==
    LET t == Strip(part)
        signed == t # <<>> /\ t[1] \in {"+", "-"}
        digits == IF signed THEN Tail(t) ELSE t
        ok == digits # <<>> /\ \A i \in 1..Len(digits) : IsDigit(digits[i])
    IN  [ok |-> ok,
         n |-> IF ~ok THEN 0
               ELSE IF signed /\ t[1] = "-" THEN 0 - DecimalValue(digits)
               ELSE DecimalValue(digits)]

RECURSIVE Split(_, _)
\* s.split(sep) for a one-character separator
Split(s, sep) ==
    IF \A i \in 1..Len(s) : s[i] # sep THEN <<s>>
    ELSE LET i == CHOOSE k \in 1..Len(s) :
                     s[k] = sep /\ \A j \in 1..(k - 1) : s[j] # sep
         IN  <<SubSeq(s, 1, i - 1)>> \o Split(SubSeq(s, i + 1, Len(s)), sep)

\* list(range(lo, hi))
Range(lo, hi) == [k \in 1..Max(hi - lo, 0) |-> lo + k - 1]

\* the parsing of the --pages option in pdf2text: hint tells that
\* ValueError was caught, the format hint printed and the process ended
\* with code 1; otherwise sel is page_list (None when the option is absent
\* or empty)
ParsePages(pages) ==
    LET NoSel == [given |-> FALSE, list |-> <<>>]
        Hint == [hint |-> TRUE, sel |-> NoSel]
    IN  IF pages = None \/ pages = <<>> THEN [hint |-> FALSE, sel |-> NoSel]
        ELSE IF \E i \in 1..Len(pages) : pages[i] = "-"
        THEN LET parts == Split(pages, "-")
             IN  IF Len(parts) # 2 THEN Hint
                 ELSE IF ~IntOf(parts[1]).ok \/ ~IntOf(parts[2]).ok THEN Hint
                 ELSE [hint |-> FALSE,
                       sel |-> [given |-> TRUE,
                                list |-> Range(IntOf(parts[1]).n - 1,
                                               IntOf(parts[2]).n)]]
        ELSE LET parts == Split(pages, ",")
             IN  IF \E k \in 1..Len(parts) : ~IntOf(parts[k]).ok THEN Hint
                 ELSE [hint |-> FALSE,
                       sel |-> [given |-> TRUE,
                                list |-> [k \in 1..Len(parts) |->
                                             IntOf(parts[k]).n - 1]]]

\* what a run of the command leaves: its exit code, what it wrote to the
\* error channel ("usage" by click, "hint", "error"), what to standard
\* output, page_list as parsed, and whether the text extraction was called
CliResult(exit_code, err, stdout, sel, extracted, text) ==
    [exit_code |-> exit_code, err |-> err, stdout |-> stdout, sel |-> sel,
     extracted |-> extracted, text |-> text]

\* the facade operations a run called, in order, and whether it wrote the
\* --output file
CliRun(result, calls, wrote) ==
    [exit_code |-> result.exit_code, err |-> result.err,
     stdout |-> result.stdout, sel |-> result.sel,
     extracted |-> result.extracted, text |-> result.text,
     calls |-> calls, wrote |-> wrote]

\* "if x:" for an option value: neither None nor the empty string
Truthy(value) == value # None /\ value # <<>>

\* the search option tested before the metadata flag
Mode_searchFirst(argv) ==
    IF Truthy(argv.search) THEN "search"
    ELSE IF argv.metadata THEN "metadata"
    ELSE "extract"

\* the branch of pdf2text a command line takes: "if metadata: ... return",
\* then "if search: ... return", then the extraction
Mode(argv) ==
    IF argv.metadata THEN "metadata"
    ELSE IF Truthy(argv.search) THEN "search"
    ELSE "extract"

\* the pdf2text command: click checks that pdf_file exists, then the body
\* runs inside try/except Exception; sys.exit(1) after the hint is not an
\* Exception and ends the process
pdf2text(argv, file) ==
    LET NoSel == [given |-> FALSE, list |-> <<>>]
        ctor == parser_init(argv.backend, argv.fitz_ok)
        Failed == CliResult(1, "error", "", NoSel, FALSE, <<>>)
    IN  IF ~file.exists
        THEN CliRun(CliResult(2, "usage", "", NoSel, FALSE, <<>>), <<>>, FALSE)
        ELSE IF ctor.outcome = "raise" THEN CliRun(Failed, <<>>, FALSE)
        ELSE IF Mode(argv) = "metadata"
        THEN IF get_pdf_metadata(ctor.backend, file).outcome = "raise"
             THEN CliRun(Failed, <<"get_pdf_metadata">>, FALSE)
             ELSE CliRun(CliResult(0, "", "metadata", NoSel, FALSE, <<>>),
                         <<"get_pdf_metadata">>, FALSE)
        ELSE IF Mode(argv) = "search"
        THEN IF search_text(ctor.backend, file, argv.search, FALSE).outcome = "raise"
             THEN CliRun(Failed, <<"search_text">>, FALSE)
             ELSE CliRun(CliResult(0, "", "matches", NoSel, FALSE, <<>>),
                         <<"search_text">>, FALSE)
        ELSE LET parsed == ParsePages(argv.pages)
                 r == extract_text_from_file(ctor.backend, file, parsed.sel, TRUE)
             IN  IF parsed.hint
                 THEN CliRun(CliResult(1, "hint", "", NoSel, FALSE, <<>>),
                             <<>>, FALSE)
                 ELSE IF r.outcome = "raise"
                 THEN CliRun(CliResult(1, "error", "", parsed.sel, TRUE, <<>>),
                             <<"extract_text_from_file">>, FALSE)
                 ELSE IF Truthy(argv.output)
                 THEN CliRun(CliResult(0, "", "written", parsed.sel, TRUE, r.text),
                             <<"extract_text_from_file">>, TRUE)
                 ELSE CliRun(CliResult(0, "", "text", parsed.sel, TRUE, r.text),
                             <<"extract_text_from_file">>, FALSE)

-----------------------------------------------------------------------------
(* State: the facade instances the caller holds, the file at the path     *)
(* given to the extraction operations, the output file of the conversion  *)
(* operations, the last call with its arguments and result, and a result  *)
(* the caller has kept to compare a later one with.                       *)

NoInstance == [alive |-> FALSE, backend |-> <<>>, page_cache |-> {}]

NoCall == [op |-> "none", args |-> <<>>, r |-> <<>>]

Call(op, args, r) == [op |-> op, args |-> args, r |-> r]

\* the caller has kept no result
NoKept == [call |-> NoCall, backend |-> <<>>]

\* a file that exists, is named *.pdf and holds a one-page document
DefaultFile ==
    [exists |-> TRUE, suffix |-> S_dot_pdf,
     doc |-> Doc("ok", OnePage, <<>>, 0)]

Init ==
    /\ parser = NoInstance
    /\ converter = NoInstance
    /\ pdf_file \in Files
    /\ output_file = "absent"
    /\ kept = NoKept
    /\ res = NoCall

\* parser = PDFToTextParser(backend): when the constructor raises, the
\* caller keeps the instance it had
\* fitz is imported for the pymupdf backend only
NewParserWith(args) ==
    \E backend \in args :
      \E fitz_ok \in (IF Lower(backend) = S_pymupdf THEN BOOLEAN ELSE {TRUE}) :
        LET r == parser_init(backend, fitz_ok)
        IN  /\ parser' = IF r.outcome = "return"
                         THEN [alive |-> TRUE, backend |-> r.backend,
                               page_cache |-> {}]
                         ELSE parser
            /\ res' = Call("PDFToTextParser",
                           [backend |-> backend, fitz_ok |-> fitz_ok], r)
            /\ UNCHANGED <<kept, converter, pdf_file, output_file>>

NewParser == NewParserWith(BackendArgs)

\* converter = HTMLToPDFConverter(backend)
NewConverterWith(args) ==
    \E backend \in args :
        LET r == converter_init(backend)
        IN  /\ converter' = IF r.outcome = "return"
                            THEN [alive |-> TRUE, backend |-> r.backend,
                                  page_cache |-> {}]
                            ELSE converter
            /\ res' = Call("HTMLToPDFConverter", [backend |-> backend], r)
            /\ UNCHANGED <<kept, parser, pdf_file, output_file>>

NewConverter == NewConverterWith(BackendArgs)

\* the constructor arguments of the specifications that are about the
\* operations of an instance
FewBackendArgs ==
    ParserBackends \cup ConverterBackends \cup
    { <<"P","y","P","D","F">>, <<"i","n","v","a","l","i","d">> }

NewParserFew == NewParserWith(FewBackendArgs)

NewConverterFew == NewConverterWith(FewBackendArgs)

\* extract_text_from_file storing what it extracted in self._page_cache
ExtractTextWith_cached(selectors) ==
    /\ parser.alive
    /\ \E sel \in selectors, clean \in BOOLEAN :
          /\ res' = Call("extract_text", [sel |-> sel, clean |-> clean],
                         extract_text_from_file(parser.backend, pdf_file, sel, clean))
          /\ parser' = [parser EXCEPT !.page_cache = @ \cup {<<sel, clean>>}]
    /\ UNCHANGED <<kept, converter, pdf_file, output_file>>

\* parser.extract_text_from_file(pdf_file, pages=sel, clean_text=clean)
ExtractTextWith(selectors) ==
    /\ parser.alive
    /\ \E sel \in selectors, clean \in BOOLEAN :
          res' = Call("extract_text", [sel |-> sel, clean |-> clean],
                      extract_text_from_file(parser.backend, pdf_file, sel, clean))
    /\ UNCHANGED <<kept, parser, converter, pdf_file, output_file>>

ExtractText == ExtractTextWith(PageSelectors)

\* parser.extract_text_by_page(pdf_file, clean_text=clean)
ExtractByPage ==
    /\ parser.alive
    /\ \E clean \in BOOLEAN :
          res' = Call("extract_text_by_page", [clean |-> clean],
                      extract_text_by_page(parser.backend, pdf_file, clean))
    /\ UNCHANGED <<kept, parser, converter, pdf_file, output_file>>

\* parser.get_pdf_metadata(pdf_file)
GetMetadata ==
    /\ parser.alive
    /\ res' = Call("get_metadata", <<>>,
                   get_pdf_metadata(parser.backend, pdf_file))
    /\ UNCHANGED <<kept, parser, converter, pdf_file, output_file>>

Queries ==
    { <<>>, <<"a">>, <<"A">>, <<"b">>, <<"a"," ","B">>, <<"z">> }

\* parser.search_text(pdf_file, query, case_sensitive)
SearchTextWith(queries) ==
    /\ parser.alive
    /\ \E query \in queries, case_sensitive \in BOOLEAN :
          res' = Call("search_text",
                      [query |-> query, case_sensitive |-> case_sensitive],
                      search_text(parser.backend, pdf_file, query, case_sensitive))
    /\ UNCHANGED <<kept, parser, converter, pdf_file, output_file>>

SearchText == SearchTextWith(Queries)

\* convert_html_string switching the instance to the reportlab delegate
\* when the selected engine fails
ConvertStringWith_fallback(html_inputs, option_sets) ==
    /\ converter.alive
    /\ \E html_content \in html_inputs, options \in option_sets,
          engine \in EngineOutcomes(converter.backend) :
          LET r == convert_html_string(converter.backend, html_content,
                                       output_file, options, engine)
          IN  /\ res' = Call("convert_string",
                             [html_content |-> html_content,
                              options |-> options, engine |-> engine,
                              out_before |-> output_file], r)
              /\ output_file' = r.out
              /\ converter' = IF r.value = FALSE
                               THEN [converter EXCEPT !.backend = S_reportlab]
                               ELSE converter
    /\ UNCHANGED <<kept, parser, pdf_file>>

\* converter.convert_html_string(html_content, output_file, **options)
ConvertStringWith(html_inputs, option_sets) ==
    /\ converter.alive
    /\ \E html_content \in html_inputs, options \in option_sets,
          engine \in EngineOutcomes(converter.backend) :
          LET r == convert_html_string(converter.backend, html_content,
                                       output_file, options, engine)
          IN  /\ res' = Call("convert_string",
                             [html_content |-> html_content,
                              options |-> options, engine |-> engine,
                              out_before |-> output_file], r)
              /\ output_file' = r.out
    /\ UNCHANGED <<kept, parser, converter, pdf_file>>

ConvertString == ConvertStringWith(HtmlInputs, OptionSets)

\* converter.convert_html_file(html_file, output_file, **options)
ConvertFileWith(html_files, option_sets) ==
    /\ converter.alive
    /\ \E html_file \in html_files, options \in option_sets,
          engine \in EngineOutcomes(converter.backend) :
          LET r == convert_html_file(converter.backend, html_file,
                                     output_file, options, engine)
          IN  /\ res' = Call("convert_file",
                             [html_file |-> html_file,
                              options |-> options, engine |-> engine,
                              out_before |-> output_file], r)
              /\ output_file' = r.out
    /\ UNCHANGED <<kept, parser, converter, pdf_file>>

ConvertFile == ConvertFileWith(HtmlFiles, OptionSets)

Next ==
    \/ NewParser
    \/ NewConverter
    \/ ExtractText
    \/ ExtractByPage
    \/ GetMetadata
    \/ SearchText
    \/ ConvertString
    \/ ConvertFile

\* both facades, every operation
Spec == Init /\ [][Next]_vars

\* the two constructors alone
InitCtor ==
    /\ parser = NoInstance
    /\ converter = NoInstance
    /\ pdf_file = DefaultFile
    /\ output_file = "absent"
    /\ kept = NoKept
    /\ res = NoCall

NextCtor ==
    \/ NewParser
    \/ NewConverter

SpecCtor == InitCtor /\ [][NextCtor]_vars

\* the extraction facade over every file
NextExtract ==
    \/ NewParserFew
    \/ ExtractText
    \/ ExtractByPage
    \/ GetMetadata
    \/ SearchText

SpecExtract == Init /\ [][NextExtract]_vars

\* the conversion facade
NextConvert ==
    \/ NewConverterFew
    \/ ConvertString
    \/ ConvertFile

SpecConvert == InitCtor /\ [][NextConvert]_vars

\* n copies of the character c
Rep(c, n) == [i \in 1..n |-> c]

\* a page text longer than the context width: a space exactly
\* ContextWidth characters before its last character
LongText ==
    <<"c", " ">> \o Rep("x", ContextWidth - 1) \o <<"b">>

\* the raw page texts of the documents that are searched: overlapping
\* occurrences, a regex metacharacter, both letter cases, text that
\* cleaning changes, occurrences that overlap only when case is ignored,
\* and the long text
SearchTexts ==
    { <<>>,
      <<"a","a","a">>,
      <<"a",".","b"," ","A","b">>,
      <<" "," ","a","B">>,
      <<"A","A","a">>,
      LongText }

SearchPages ==
    { [throws |-> FALSE, text |-> t] : t \in SearchTexts \ {LongText} } \cup
    { [throws |-> TRUE, text |-> <<>>] }

\* the files that are searched: PDFs of 1..MaxPages pages, a one-page PDF
\* with the long text, a PDF the engine cannot open and a missing file
SearchFiles ==
    { [exists |-> TRUE, suffix |-> S_dot_pdf, doc |-> Doc("ok", ps, <<>>, 0)] :
        ps \in UNION { [1..n -> SearchPages] : n \in 1..MaxPages } } \cup
    { [exists |-> TRUE, suffix |-> S_dot_pdf,
       doc |-> Doc("ok", << [throws |-> FALSE, text |-> LongText] >>, <<>>, 0)],
      [exists |-> TRUE, suffix |-> S_dot_pdf, doc |-> NoDoc],
      [exists |-> FALSE, suffix |-> S_dot_pdf, doc |-> NoDoc] }

SearchQueries ==
    { <<>>, <<"a">>, <<"a","a">>, <<".">>, <<"a","b">>, <<"a","B">>,
      <<"A",".","B">>, <<"A","a">>, <<"c">>, <<"b">>, <<"z">>, <<" ">> }

SearchTextMore == SearchTextWith(SearchQueries)

InitSearch ==
    /\ parser = NoInstance
    /\ converter = NoInstance
    /\ pdf_file \in SearchFiles
    /\ output_file = "absent"
    /\ kept = NoKept
    /\ res = NoCall

NextSearch ==
    \/ NewParserFew
    \/ SearchTextMore

\* search_text over the searched files
SpecSearch == InitSearch /\ [][NextSearch]_vars

\* the longest string given to the cleaning pass
MaxLen == 4

\* the characters of the strings that are cleaned: a lower-case letter, an
\* upper-case letter, a sentence end and two kinds of whitespace
CleanChars == {"a", "B", ".", " ", "\n"}

\* the arguments of _clean_text: None and every string up to MaxLen
CleanInputs ==
    {None} \cup UNION { [1..n -> CleanChars] : n \in 0..MaxLen }

\* parser._clean_text(text), text the string the caller holds
CleanText ==
    /\ parser.alive
    /\ res.op = "none"
    /\ res' = Call("clean_text", [text |-> res.args.text, again |-> FALSE],
                   Return("text", clean_text(res.args.text)))
    /\ UNCHANGED <<kept, parser, converter, pdf_file, output_file>>

\* parser._clean_text(cleaned), cleaned the result of the last call
CleanAgain ==
    /\ parser.alive
    /\ res.op = "clean_text"
    /\ res' = Call("clean_text", [text |-> res.r.text, again |-> TRUE],
                   Return("text", clean_text(res.r.text)))
    /\ UNCHANGED <<kept, parser, converter, pdf_file, output_file>>

\* a parser, and a caller that holds a string to clean
InitClean ==
    /\ parser = [alive |-> TRUE, backend |-> S_pypdf, page_cache |-> {}]
    /\ converter = NoInstance
    /\ pdf_file = DefaultFile
    /\ output_file = "absent"
    /\ kept = NoKept
    /\ \E text \in CleanInputs :
          res = Call("none", [text |-> text, again |-> FALSE], <<>>)

NextClean ==
    \/ CleanText
    \/ CleanAgain

\* the cleaning pass over every short string
SpecClean == InitClean /\ [][NextClean]_vars

\* the longest --pages string of the exhaustive part of PageArgs
MaxArgLen == 3

PageArgChars == {"1", "2", "-", ",", " ", "+", "x"}

\* the values of the --pages option: absent, every string up to MaxArgLen,
\* and some longer ones
PageArgs ==
    {None} \cup UNION { [1..n -> PageArgChars] : n \in 0..MaxArgLen } \cup
    { <<"1",",","3",",","5">>, <<"1","-","5">>, <<"1","-","2","-","1">>,
      <<"1",",","3","-","5">>, <<"1","0",",","2">>, <<"2","-","1","0">>,
      <<"1",","," ","2">> }

\* the command lines of pdf2text
Argvs ==
    { [backend |-> b, fitz_ok |-> f, metadata |-> m, search |-> q, pages |-> p,
       output |-> o] :
        b \in {S_pypdf}, f \in {TRUE}, m \in {FALSE}, q \in {None},
        p \in PageArgs, o \in {None} } \cup
    { [backend |-> b, fitz_ok |-> f, metadata |-> m, search |-> q, pages |-> p,
       output |-> o] :
        b \in ParserBackends, f \in BOOLEAN, m \in BOOLEAN,
        q \in {None, <<>>, <<"a">>},
        p \in {None, <<"1">>, <<"x">>, <<"2","-","1">>},
        o \in {None, <<"o">>} }

\* the files pdf2text is run on
CliFiles ==
    { DefaultFile,
      [exists |-> TRUE, suffix |-> S_dot_pdf,
       doc |-> Doc("ok", << [throws |-> FALSE, text |-> <<"a","B","\n">>],
                            [throws |-> FALSE, text |-> <<"a">>] >>, <<>>, 0)],
      [exists |-> TRUE, suffix |-> S_dot_txt, doc |-> NoDoc],
      [exists |-> FALSE, suffix |-> S_dot_pdf, doc |-> NoDoc] }

\* the process runs the command once
Pdf2Text ==
    /\ res.op = "argv"
    /\ res' = Call("pdf2text", res.args, pdf2text(res.args, pdf_file))
    /\ UNCHANGED <<kept, parser, converter, pdf_file, output_file>>

\* a process started with a command line
InitCli ==
    /\ parser = NoInstance
    /\ converter = NoInstance
    /\ pdf_file \in CliFiles
    /\ output_file = "absent"
    /\ kept = NoKept
    /\ \E argv \in Argvs : res = Call("argv", argv, <<>>)

NextCli ==
    \/ Pdf2Text

\* one run of the pdf2text command
SpecCli == InitCli /\ [][NextCli]_vars

\* the selectors of the repeated calls
FewSelectors ==
    { [given |-> FALSE, list |-> <<>>],
      [given |-> TRUE, list |-> <<0>>],
      [given |-> TRUE, list |-> <<1, 0>>] }

ExtractTextFew == ExtractTextWith(FewSelectors)

\* text1 = parser.extract_text_from_file(...): the caller keeps the result
\* of the call, with the backend of the instance that gave it
KeepResult ==
    /\ res.op = "extract_text"
    /\ kept = NoKept
    /\ kept' = [call |-> res, backend |-> parser.backend]
    /\ res' = NoCall
    /\ UNCHANGED <<parser, converter, pdf_file, output_file>>

InitRepeat ==
    /\ parser = NoInstance
    /\ converter = NoInstance
    /\ pdf_file \in CliFiles
    /\ output_file = "absent"
    /\ kept = NoKept
    /\ res = NoCall

NextRepeat ==
    \/ NewParserFew
    \/ ExtractTextFew
    \/ ExtractByPage
    \/ GetMetadata
    \/ SearchText
    \/ KeepResult

\* calls of one instance after another, a result kept for comparison
SpecRepeat == InitRepeat /\ [][NextRepeat]_vars

-----------------------------------------------------------------------------
(* Properties                                                             *)

IsParserCtor == res.op = "PDFToTextParser"

IsConverterCtor == res.op = "HTMLToPDFConverter"

\* no instance the caller holds has an unsupported backend
InstancesSupported ==
    /\ parser.alive => parser.backend \in ParserBackends
    /\ converter.alive => converter.backend \in ConverterBackends

\* C1 as stated: for both facades the constructor returns if and only if
\* the lowercased name is one of the facade's three backends, raises
\* ValueError for every other string, stores the lowercased name, and no
\* instance with an unsupported backend exists.
C1_AsStated ==
    /\ IsParserCtor =>
          /\ res.r.outcome = "return"
                <=> Lower(res.args.backend) \in ParserBackends
          /\ Lower(res.args.backend) \notin ParserBackends
                => res.r.outcome = "raise" /\ res.r.exc = "ValueError"
    /\ IsConverterCtor =>
          /\ res.r.outcome = "return"
                <=> Lower(res.args.backend) \in ConverterBackends
          /\ Lower(res.args.backend) \notin ConverterBackends
                => res.r.outcome = "raise" /\ res.r.exc = "ValueError"
    /\ InstancesSupported

\* C1 amended: HTMLToPDFConverter is constructed if and only if the
\* lowercased name is one of its three backends; PDFToTextParser if and
\* only if the lowercased name is one of its three backends and, for
\* pymupdf, fitz can be imported (ImportError otherwise).  Every other
\* string raises ValueError, the backend stored is the lowercased name,
\* and no instance with an unsupported backend exists.
C1_Construction ==
    /\ IsParserCtor =>
          /\ res.r.outcome = "return"
                <=> /\ Lower(res.args.backend) \in ParserBackends
                    /\ Lower(res.args.backend) = S_pymupdf => res.args.fitz_ok
          /\ Lower(res.args.backend) \notin ParserBackends
                => res.r.outcome = "raise" /\ res.r.exc = "ValueError"
          /\ Lower(res.args.backend) = S_pymupdf /\ ~res.args.fitz_ok
                => res.r.outcome = "raise" /\ res.r.exc = "ImportError"
          /\ res.r.outcome = "return"
                => parser.alive /\ parser.backend = Lower(res.args.backend)
    /\ IsConverterCtor =>
          /\ res.r.outcome = "return"
                <=> Lower(res.args.backend) \in ConverterBackends
          /\ Lower(res.args.backend) \notin ConverterBackends
                => res.r.outcome = "raise" /\ res.r.exc = "ValueError"
          /\ res.r.outcome = "return"
                => converter.alive /\ converter.backend = Lower(res.args.backend)
    /\ InstancesSupported

\* a parser built from "PyPDF" stores "pypdf"
C1_Witness ==
    /\ IsParserCtor
    /\ res.args.backend = <<"P","y","P","D","F">>
    /\ res.r.outcome = "return"
    /\ parser.backend = S_pypdf

\* the document of the file, and whether its engine works on it
TheDoc == pdf_file.doc

EngineWorks == TheDoc.status \in {"ok", "meta_fails"}

\* the file passes both checks of extract_text
IsPdfFile == pdf_file.exists /\ Lower(pdf_file.suffix) = S_dot_pdf

IsExtractText == res.op = "extract_text"

IsByPage == res.op = "extract_text_by_page"

\* C2: extract_text_by_page returns a mapping whose keys are exactly
\* 0..total_pages-1 whichever pages fail, and a page whose extraction
\* throws maps to the empty string.
C2_ByPageComplete ==
    IsByPage /\ pdf_file.exists /\ EngineWorks =>
        /\ res.r.outcome = "return"
        /\ DOMAIN res.r.by_page = 0..(Len(TheDoc.pages) - 1)
        /\ \A n \in 0..(Len(TheDoc.pages) - 1) :
              TheDoc.pages[n + 1].throws => res.r.by_page[n] = <<>>

\* a two-page document whose second page throws, extracted by page
C2_Witness ==
    /\ IsByPage
    /\ res.r.outcome = "return"
    /\ Len(TheDoc.pages) = 2
    /\ ~TheDoc.pages[1].throws /\ TheDoc.pages[1].text # <<>>
    /\ TheDoc.pages[2].throws
    /\ res.r.by_page[1] = <<>>

\* the indices of the selector that lie in the document, in their order
Selected(sel, doc) ==
    IF sel.given
    THEN LET In(p) == 0 <= p /\ p <= Len(doc.pages) - 1
         IN  SelectSeq(sel.list, In)
    ELSE [i \in 1..Len(doc.pages) |-> i - 1]

\* the selected pages whose extraction does not throw
Surviving(sel, doc) ==
    LET Ok(p) == ~doc.pages[p + 1].throws
    IN  SelectSeq(Selected(sel, doc), Ok)

\* C3: a page that fails never aborts extract_text: the call returns, and
\* returns what it returns for the selection without the failing pages.
C3_PageFailureIsolated ==
    IsExtractText /\ IsPdfFile /\ EngineWorks =>
        /\ res.r.outcome = "return"
        /\ res.r.text =
              extract_text_from_file(parser.backend, pdf_file,
                  [given |-> TRUE, list |-> Surviving(res.args.sel, TheDoc)],
                  res.args.clean).text

\* the header of the block of zero-indexed page p
Header(p) ==
    <<"-","-","-"," ","P","a","g","e"," ">> \o IntToStr(p + 1) \o <<" ","-","-","-">>

\* the text of page p as extract_text shows it
Shown(doc, p, clean) ==
    IF clean THEN clean_text(doc.pages[p + 1].text) ELSE doc.pages[p + 1].text

IsBlank(text) == \A i \in DOMAIN text : IsSpace(text[i])

\* the selected pages that contribute a block
Contributing(sel, doc, clean) ==
    LET NonBlank(p) == ~IsBlank(Shown(doc, p, clean))
    IN  SelectSeq(Surviving(sel, doc), NonBlank)

\* text is the blocks of pages ps, in order, with "\n\n" between them
RECURSIVE IsBlocksOf(_, _, _, _)
IsBlocksOf(text, ps, doc, clean) ==
    IF ps = <<>> THEN text = <<>>
    ELSE LET block == Header(ps[1]) \o <<"\n">> \o Shown(doc, ps[1], clean)
             n == Len(block)
         IN  /\ Len(text) >= n
             /\ SubSeq(text, 1, n) = block
             /\ IF Len(ps) = 1 THEN Len(text) = n
                ELSE /\ Len(text) >= n + 2
                     /\ text[n + 1] = "\n" /\ text[n + 2] = "\n"
                     /\ IsBlocksOf(SubSeq(text, n + 3, Len(text)), Tail(ps),
                                   doc, clean)

\* C4: the result of extract_text is, in selector order, one block
\* "--- Page N ---", newline, text per selected page whose shown text is
\* not blank, N the page number plus one, the blocks separated by one
\* blank line; a page with blank text contributes nothing.
C4_BlockFormat ==
    IsExtractText /\ res.r.outcome = "return" =>
        IsBlocksOf(res.r.text,
                   Contributing(res.args.sel, TheDoc, res.args.clean),
                   TheDoc, res.args.clean)

\* pages=[1, 0] of a document with two non-blank pages: two blocks, page
\* 2 first
C4_Witness ==
    /\ IsExtractText /\ res.r.outcome = "return"
    /\ res.args.sel.given /\ res.args.sel.list = <<1, 0>>
    /\ Len(Contributing(res.args.sel, TheDoc, res.args.clean)) = 2
    /\ res.r.text # <<>>

\* a two-page document whose first page is extracted and whose second
\* page throws
C3_Witness ==
    /\ IsExtractText /\ res.r.outcome = "return"
    /\ ~res.args.sel.given
    /\ Len(TheDoc.pages) = 2
    /\ TheDoc.pages[2].throws
    /\ res.r.text = Header(0) \o <<"\n", "a", " ", "B">>

\* C5: extract_text never raises because of the selector: the indices
\* p < 0 and p >= total_pages are dropped and the others kept in their
\* order, and an empty selection gives the empty string.
C5_SelectorLenient ==
    IsExtractText /\ IsPdfFile /\ EngineWorks /\ res.args.sel.given =>
        /\ res.r.outcome = "return"
        /\ res.r.text =
              extract_text_from_file(parser.backend, pdf_file,
                  [given |-> TRUE, list |-> Selected(res.args.sel, TheDoc)],
                  res.args.clean).text
        /\ Selected(res.args.sel, TheDoc) = <<>> => res.r.text = <<>>
        /\ IsBlocksOf(res.r.text,
                      Contributing(res.args.sel, TheDoc, res.args.clean),
                      TheDoc, res.args.clean)

\* pages=[-1, MaxPages] of a document with a non-blank last page: nothing
\* is selected
C5_Witness ==
    /\ IsExtractText /\ res.r.outcome = "return"
    /\ res.args.sel.given /\ res.args.sel.list = <<0 - 1, MaxPages>>
    /\ TheDoc.pages # <<>>
    /\ ~TheDoc.pages[Len(TheDoc.pages)].throws
    /\ ~IsBlank(TheDoc.pages[Len(TheDoc.pages)].text)
    /\ res.r.text = <<>>

\* C6: extract_text raises FileNotFoundError when the path does not
\* exist, whatever its extension, and ValueError when it exists with an
\* extension that is not ".pdf" in any letter case; in both cases no
\* parsing engine is invoked, and neither is raised otherwise.
C6_PathChecks ==
    IsExtractText =>
        /\ ~pdf_file.exists
              => /\ res.r.outcome = "raise"
                 /\ res.r.exc = "FileNotFoundError"
                 /\ ~res.r.engine
        /\ pdf_file.exists /\ Lower(pdf_file.suffix) # S_dot_pdf
              => /\ res.r.outcome = "raise"
                 /\ res.r.exc = "ValueError"
                 /\ ~res.r.engine
        /\ IsPdfFile => res.r.exc \notin {"FileNotFoundError", "ValueError"}

\* a missing file without the .pdf extension: FileNotFoundError
C6_Witness ==
    /\ IsExtractText
    /\ ~pdf_file.exists /\ pdf_file.suffix = S_dot_txt
    /\ res.r.exc = "FileNotFoundError"

IsGetMetadata == res.op = "get_metadata"

IsSearchText == res.op = "search_text"

IsExtraction == IsExtractText \/ IsByPage \/ IsGetMetadata \/ IsSearchText

\* C7: each of extract_text, extract_text_by_page, get_metadata and
\* search_text, called on a missing file or on an existing file whose
\* extension is not ".pdf", raises a setup error and never returns a
\* result.
C7_SetupErrorsRaised ==
    IsExtraction /\ ~IsPdfFile =>
        /\ res.r.outcome = "raise"
        /\ res.r.exc \in {"FileNotFoundError", "ValueError"}

\* the engine throws while opening the document or reading its page count
EngineThrows == TheDoc.status \in {"open_fails", "count_fails"}

IsConvertString == res.op = "convert_string"

IsConvertFile == res.op = "convert_file"

\* the delegate routine of a conversion backend
DelegateOf(backend) ==
    IF backend = S_weasyprint THEN "weasyprint"
    ELSE IF backend = S_xhtml2pdf THEN "xhtml2pdf"
    ELSE IF backend = S_reportlab THEN "reportlab"
    ELSE "none"

\* C9: convert_string invokes exactly one delegate, that of the stored
\* backend, and returns a boolean: true only if the delegate completed
\* without error, false whenever the delegate or its engine raised, a
\* failing import included; no exception leaves convert_string.
C9_ConvertStringTotal ==
    IsConvertString =>
        /\ res.r.outcome = "return"
        /\ res.r.value \in BOOLEAN
        /\ res.r.delegates = <<DelegateOf(converter.backend)>>
        /\ res.r.value => res.args.engine = "ok"
        /\ res.args.engine \in {"import_fails", "raises", "raises_writing"}
              => res.r.value = FALSE
        /\ ( /\ converter.backend \in {S_weasyprint, S_xhtml2pdf}
             /\ "css_file" \in res.args.options.keys
             /\ res.args.options.val["css_file"] = "missing.css" )
              => res.r.value = FALSE /\ output_file = res.args.out_before

\* the import of xhtml2pdf fails: convert_string returns False
C9_Witness ==
    /\ IsConvertString
    /\ converter.backend = S_xhtml2pdf
    /\ res.args.engine = "import_fails"
    /\ res.r.outcome = "return" /\ res.r.value = FALSE
    /\ res.r.delegates = <<"xhtml2pdf">>

\* C10: convert_file on an input path that does not exist raises
\* FileNotFoundError; no delegate is invoked and the output file is left
\* as it was.
C10_MissingInputRaises ==
    IsConvertFile /\ ~res.args.html_file.exists =>
        /\ res.r.outcome = "raise"
        /\ res.r.exc = "FileNotFoundError"
        /\ res.r.delegates = <<>>
        /\ output_file = res.args.out_before

\* convert_file on a missing input after an earlier conversion wrote the
\* output
C10_Witness ==
    /\ IsConvertFile /\ ~res.args.html_file.exists
    /\ res.r.exc = "FileNotFoundError"
    /\ res.args.out_before = "complete"
    /\ output_file = "complete"

\* C11: convert_file on an existing HTML file, with any mapping over the
\* recognized option names (base_url among them), returns a boolean and
\* never raises: every failure other than the missing input is a false
\* return value.
C11_FileErrorsAreFalse ==
    ( /\ IsConvertFile
      /\ res.args.html_file.exists
      /\ res.args.html_file.decodable
      /\ res.args.options.keys \subseteq OptionNames )
        => /\ res.r.outcome = "return"
           /\ res.r.value \in BOOLEAN

\* C12: for every backend and every existing PDF file its engine reads,
\* the mapping get_metadata returns has the key "pages", holding the
\* total page count as a string, and every value of the mapping is a
\* string.
C12_MetadataStrings ==
    IsGetMetadata /\ IsPdfFile /\ TheDoc.status = "ok" =>
        /\ res.r.outcome = "return"
        /\ S_pages \in DOMAIN res.r.metadata
        /\ res.r.metadata[S_pages] = MetaStr(IntToStr(Len(TheDoc.pages)))
        /\ \A k \in DOMAIN res.r.metadata : res.r.metadata[k].kind = "str"

\* the engine fails somewhere in get_pdf_metadata
MetaFailure ==
    TheDoc.status \in {"import_fails", "open_fails", "meta_fails", "count_fails"}

\* the keys the branch of the stored backend has stored for entries 1..n
KeysStored(n) ==
    { IF parser.backend = S_pypdf THEN LStripSlash(TheDoc.meta[i].key)
      ELSE TheDoc.meta[i].key : i \in 1..n }

\* C13 as stated: when the engine throws while opening the document,
\* iterating the metadata or reading the page count, get_metadata does
\* not raise and returns an empty mapping.
C13_AsStated ==
    IsGetMetadata /\ pdf_file.exists /\ MetaFailure =>
        /\ res.r.outcome = "return"
        /\ res.r.metadata = <<>>

\* C13 amended: when the engine throws during metadata extraction,
\* get_metadata does not raise and returns the mapping as it stands at the
\* failure: empty when the import or the opening fails, the entries stored
\* before the failing one when iterating fails (pypdf, pdfplumber), every
\* metadata entry when the page count fails; the key "pages" is absent.
C13_MetadataFailureKept ==
    IsGetMetadata /\ pdf_file.exists /\ MetaFailure =>
        /\ res.r.outcome = "return"
        /\ S_pages \notin DOMAIN res.r.metadata
        /\ TheDoc.status \in {"import_fails", "open_fails"}
              => res.r.metadata = <<>>
        /\ TheDoc.status = "meta_fails"
              => DOMAIN res.r.metadata =
                    IF parser.backend = S_pymupdf THEN {}
                    ELSE KeysStored(TheDoc.fail_at - 1)
        /\ TheDoc.status = "count_fails"
              => DOMAIN res.r.metadata = KeysStored(Len(TheDoc.meta))

\* pypdf fails on the second metadata entry: the first one is returned,
\* under its key without the slash
C13_Witness ==
    /\ IsGetMetadata /\ pdf_file.exists
    /\ parser.backend = S_pypdf
    /\ TheDoc.status = "meta_fails" /\ TheDoc.fail_at = 2
    /\ res.r.outcome = "return"
    /\ DOMAIN res.r.metadata = { <<"T","i","t","l","e">> }
    /\ res.r.metadata[<<"T","i","t","l","e">>] = MetaStr(<<"T">>)

\* the cleaned text of zero-indexed page n as search_text sees it
SearchedText(n) ==
    IF TheDoc.pages[n + 1].throws THEN <<>>
    ELSE clean_text(TheDoc.pages[n + 1].text)

\* query occurs verbatim at offset o of text
OccursAt(text, query, o) ==
    /\ 0 <= o /\ o + Len(query) <= Len(text)
    /\ SubSeq(text, o + 1, o + Len(query)) = query

\* the records of matches that lie on one-indexed page
RecordsOn(matches, page) ==
    LET On(m) == m.page = page IN SelectSeq(matches, On)

\* the positions ps are what a left-to-right scan for non-overlapping
\* occurrences of query in text finds
IsScanOf(ps, text, query) ==
    /\ \A k \in 1..Len(ps) : OccursAt(text, query, ps[k])
    /\ \A k \in 1..(Len(ps) - 1) : ps[k] + Len(query) <= ps[k + 1]
    /\ \A o \in 0..Len(text) :
          OccursAt(text, query, o) =>
              \E k \in 1..Len(ps) : ps[k] <= o /\ o < ps[k] + Len(query)

\* C14: for a non-empty query the case-sensitive search_text returns no
\* records when the query occurs verbatim in no page's cleaned text, and
\* otherwise, page by page in ascending order, one record per occurrence
\* that a left-to-right non-overlapping scan of the page's cleaned text
\* finds, with page = page number + 1 and position = the offset of the
\* occurrence in that text.
C14_CaseSensitiveScan ==
    ( /\ IsSearchText
      /\ res.r.outcome = "return"
      /\ res.args.case_sensitive
      /\ res.args.query # <<>> )
        => LET ms == res.r.matches
               q == res.args.query
               N == Len(TheDoc.pages)
           IN  /\ (\A n \in 0..(N - 1) :
                      \A o \in 0..Len(SearchedText(n)) :
                          ~OccursAt(SearchedText(n), q, o))
                     => ms = <<>>
               /\ \A k \in 1..Len(ms) : ms[k].page \in 1..N
               /\ \A k \in 1..(Len(ms) - 1) : ms[k].page <= ms[k + 1].page
               /\ \A n \in 0..(N - 1) :
                     LET on == RecordsOn(ms, n + 1)
                     IN  IsScanOf([k \in 1..Len(on) |-> on[k].position],
                                  SearchedText(n), q)

\* "aa" searched in a document whose second page reads "aaa": one record,
\* at offset 0 of page 2, although "aa" occurs at offset 1 too
C14_Witness ==
    /\ IsSearchText /\ res.r.outcome = "return"
    /\ res.args.case_sensitive
    /\ res.args.query = <<"a","a">>
    /\ Len(TheDoc.pages) = 2
    /\ SearchedText(0) = <<>>
    /\ SearchedText(1) = <<"a","a","a">>
    /\ Len(res.r.matches) = 1
    /\ res.r.matches[1].page = 2 /\ res.r.matches[1].position = 0

\* what the case-insensitive search of the same file for the same query
\* returns
InsensitiveMatches ==
    search_text(parser.backend, pdf_file, res.args.query, FALSE).matches

\* C15 as stated: every (page, position) the case-sensitive search_text
\* reports is reported by the case-insensitive search_text for the same
\* query too.
C15_AsStated ==
    IsSearchText /\ res.r.outcome = "return" /\ res.args.case_sensitive =>
        \A k \in 1..Len(res.r.matches) :
            \E j \in 1..Len(InsensitiveMatches) :
                /\ InsensitiveMatches[j].page = res.r.matches[k].page
                /\ InsensitiveMatches[j].position = res.r.matches[k].position

\* C15 amended: every match the case-sensitive search_text reports lies
\* inside a match the case-insensitive search reports on the same page,
\* one that starts at the same offset or at most len(query) - 1
\* characters earlier, and on every page the case-insensitive search
\* reports at least as many matches as the case-sensitive one.
C15_InsensitiveCovers ==
    IsSearchText /\ res.r.outcome = "return" /\ res.args.case_sensitive =>
        /\ \A k \in 1..Len(res.r.matches) :
              \E j \in 1..Len(InsensitiveMatches) :
                  /\ InsensitiveMatches[j].page = res.r.matches[k].page
                  /\ InsensitiveMatches[j].position <= res.r.matches[k].position
                  /\ res.r.matches[k].position <=
                        InsensitiveMatches[j].position +
                        Max(Len(res.args.query) - 1, 0)
        /\ \A n \in 1..Len(TheDoc.pages) :
              Len(RecordsOn(res.r.matches, n)) <=
                 Len(RecordsOn(InsensitiveMatches, n))

\* "Aa" searched in the page "AAa": the case-sensitive search reports
\* offset 1, the case-insensitive search offset 0 only
C15_Witness ==
    /\ IsSearchText /\ res.r.outcome = "return"
    /\ res.args.case_sensitive
    /\ res.args.query = <<"A","a">>
    /\ Len(TheDoc.pages) = 1
    /\ SearchedText(0) = <<"A","A","a">>
    /\ Len(res.r.matches) = 1 /\ res.r.matches[1].position = 1
    /\ Len(InsensitiveMatches) = 1 /\ InsensitiveMatches[1].position = 0

\* the window of the match of record m: text[max(0, s - 50):min(L, e + 50)]
\* of the cleaned text of its page
Window(m) ==
    LET text == SearchedText(m.page - 1)
        s == m.position
        e == m.position + Len(m.match)
    IN  SubSeq(text, Max(0, s - ContextWidth) + 1,
               Min(Len(text), e + ContextWidth))

\* inner is outer without the whitespace at its two ends
IsStripOf(inner, outer) ==
    /\ inner # <<>> => ~IsSpace(inner[1]) /\ ~IsSpace(inner[Len(inner)])
    /\ \E a \in 0..Len(outer) :
          /\ a + Len(inner) <= Len(outer)
          /\ SubSeq(outer, a + 1, a + Len(inner)) = inner
          /\ \A i \in 1..Len(outer) :
                (i <= a \/ i > a + Len(inner)) => IsSpace(outer[i])

\* C16 as stated: the context of every match is the window of the page's
\* cleaned text from max(0, s - 50) to min(L, e + 50).
C16_AsStated ==
    IsSearchText /\ res.r.outcome = "return" =>
        \A k \in 1..Len(res.r.matches) :
            res.r.matches[k].context = Window(res.r.matches[k])

\* C16 amended: the context of every match is the window of the page's
\* cleaned text from max(0, s - 50) to min(L, e + 50) with the whitespace
\* at the two ends of the window removed: at most 50 characters on each
\* side of the match, clipped to the text and never padded.
C16_ContextStripped ==
    IsSearchText /\ res.r.outcome = "return" =>
        \A k \in 1..Len(res.r.matches) :
            /\ IsStripOf(res.r.matches[k].context, Window(res.r.matches[k]))
            /\ Len(res.r.matches[k].context) <=
                  Len(res.r.matches[k].match) + 2 * ContextWidth

\* "b" found at offset 51 of the long text: the window starts at the
\* space at offset 1, and the context starts after it
C16_Witness ==
    /\ IsSearchText /\ res.r.outcome = "return"
    /\ res.args.query = <<"b">> /\ res.args.case_sensitive
    /\ SearchedText(0) = LongText
    /\ Len(res.r.matches) = 1
    /\ res.r.matches[1].position = ContextWidth + 1
    /\ Len(Window(res.r.matches[1])) = ContextWidth + 1
    /\ Window(res.r.matches[1])[1] = " "
    /\ res.r.matches[1].context = Rep("x", ContextWidth - 1) \o <<"b">>

\* C17: search_text takes the query literally, a regex metacharacter in
\* it matching only itself, and the match field of every record is the
\* substring of the page's cleaned text at the reported position, as long
\* as the query, in the case it has there: equal to the query when
\* case_sensitive, equal to it up to letter case otherwise.
C17_LiteralMatch ==
    IsSearchText /\ res.r.outcome = "return" =>
        \A k \in 1..Len(res.r.matches) :
            LET m == res.r.matches[k]
                text == SearchedText(m.page - 1)
            IN  /\ m.position + Len(res.args.query) <= Len(text)
                /\ m.match = SubSeq(text, m.position + 1,
                                    m.position + Len(res.args.query))
                /\ res.args.case_sensitive => m.match = res.args.query
                /\ ~res.args.case_sensitive
                      => Lower(m.match) = Lower(res.args.query)

\* "." searched in the page "a.b Ab": the one match is the dot at offset
\* 1, not each of the six characters
C17_Witness ==
    /\ IsSearchText /\ res.r.outcome = "return"
    /\ res.args.query = <<".">>
    /\ Len(TheDoc.pages) = 1
    /\ SearchedText(0) = <<"a",".","b"," ","A","b">>
    /\ Len(res.r.matches) = 1
    /\ res.r.matches[1].position = 1
    /\ res.r.matches[1].match = <<".">>

IsCleanText == res.op = "clean_text"

\* C18: _clean_text is idempotent, cleaning a cleaned string gives that
\* string again, and it returns the empty string for the empty string and
\* for None.
C18_CleanIdempotent ==
    IsCleanText =>
        /\ res.r.outcome = "return"
        /\ clean_text(res.r.text) = res.r.text
        /\ res.args.again => res.r.text = res.args.text
        /\ res.args.text \in {None, <<>>} => res.r.text = <<>>

\* "aB.B" cleaned to "a B. B" and cleaned again
C18_Witness ==
    /\ IsCleanText
    /\ res.args.again
    /\ res.args.text = <<"a"," ","B","."," ","B">>
    /\ res.r.text = <<"a"," ","B","."," ","B">>

IsPdf2Text == res.op = "pdf2text"

\* the run reaches the parsing of a --pages option that was given
ParsesPages ==
    /\ IsPdf2Text
    /\ pdf_file.exists
    /\ parser_init(res.args.backend, res.args.fitz_ok).outcome = "return"
    /\ ~res.args.metadata
    /\ res.args.search \in {None, <<>>}
    /\ res.args.pages # None

HasDash(pages) == \E i \in 1..Len(pages) : pages[i] = "-"

\* part is a number written in digits
IsNumeral(part) ==
    part # <<>> /\ \A i \in 1..Len(part) : IsDigit(part[i])

\* the digits of a number written as int() accepts it: blanks around it
\* and a plus sign before it are allowed
LiteralDigits(part) ==
    LET t == Strip(part)
    IN  IF t # <<>> /\ t[1] = "+" THEN Tail(t) ELSE t

IsIntLiteral(part) == IsNumeral(LiteralDigits(part))

\* pages has the parts the comma list or the range ask for, every part
\* satisfying IsPart
IsCommaList(pages, IsPart(_)) ==
    /\ ~HasDash(pages)
    /\ \A k \in 1..Len(Split(pages, ",")) : IsPart(Split(pages, ",")[k])

IsDashRange(pages, IsPart(_)) ==
    /\ Len(Split(pages, "-")) = 2
    /\ IsPart(Split(pages, "-")[1]) /\ IsPart(Split(pages, "-")[2])

\* the selectors the two forms stand for
CommaSelector(pages) ==
    [k \in 1..Len(Split(pages, ",")) |->
        DecimalValue(LiteralDigits(Split(pages, ",")[k])) - 1]

RangeSelector(pages) ==
    LET a == DecimalValue(LiteralDigits(Split(pages, "-")[1]))
        b == DecimalValue(LiteralDigits(Split(pages, "-")[2]))
    IN  [k \in 1..Max(b - a + 1, 0) |-> a - 1 + (k - 1)]

HintAndExit ==
    /\ res.r.exit_code = 1
    /\ res.r.err = "hint"
    /\ ~res.r.extracted

\* C19 as stated: a comma list of numbers "n1,n2,..." gives the selector
\* [n1-1, n2-1, ...], a range "a-b" the run [a-1, ..., b-1], and every
\* other string makes pdf2text print the format hint and exit with code 1
\* without extracting.
C19_AsStated ==
    ParsesPages =>
        LET pages == res.args.pages
        IN  /\ IsCommaList(pages, IsNumeral)
                  => /\ res.r.err # "hint" /\ res.r.extracted
                     /\ res.r.sel = [given |-> TRUE, list |-> CommaSelector(pages)]
            /\ IsDashRange(pages, IsNumeral)
                  => /\ res.r.err # "hint" /\ res.r.extracted
                     /\ res.r.sel = [given |-> TRUE, list |-> RangeSelector(pages)]
            /\ ~IsCommaList(pages, IsNumeral) /\ ~IsDashRange(pages, IsNumeral)
                  => HintAndExit

\* C19 amended: the parts are read as int() reads them, blanks around a
\* number and a plus sign before it allowed.  A comma list gives the
\* selector [n1-1, n2-1, ...] in the given order, a range "a-b" the run
\* [a-1, ..., b-1], empty when a > b, and every other non-empty string
\* makes pdf2text print the format hint and exit with code 1 without
\* extracting; the empty string is taken as no option, and every page is
\* extracted.
C19_PagesParsed ==
    ParsesPages =>
        LET pages == res.args.pages
        IN  /\ pages # <<>> /\ IsCommaList(pages, IsIntLiteral)
                  => /\ res.r.err # "hint" /\ res.r.extracted
                     /\ res.r.sel = [given |-> TRUE, list |-> CommaSelector(pages)]
            /\ IsDashRange(pages, IsIntLiteral)
                  => /\ res.r.err # "hint" /\ res.r.extracted
                     /\ res.r.sel = [given |-> TRUE, list |-> RangeSelector(pages)]
            /\ ( /\ pages # <<>>
                 /\ ~IsCommaList(pages, IsIntLiteral)
                 /\ ~IsDashRange(pages, IsIntLiteral) )
                  => HintAndExit
            /\ pages = <<>>
                  => /\ res.r.err # "hint" /\ res.r.extracted
                     /\ ~res.r.sel.given

\* --pages "1,3,5" on a two-page PDF: the selector is [0, 2, 4] and the
\* text of page 1 is printed
C19_Witness ==
    /\ ParsesPages
    /\ res.args.pages = <<"1",",","3",",","5">>
    /\ Len(TheDoc.pages) = 2
    /\ res.r.sel = [given |-> TRUE, list |-> <<0, 2, 4>>]
    /\ res.r.exit_code = 0
    /\ res.r.text = Header(0) \o <<"\n", "a", " ", "B">>

\* the caller has kept the result of the call that was just repeated: the
\* same arguments, an instance of the same backend
IsRepeatedCall ==
    /\ IsExtractText
    /\ kept # NoKept
    /\ kept.backend = parser.backend
    /\ kept.call.args = res.args

-----------------------------------------------------------------------------
(* Both facades in one program: the caller holds one parser and one       *)
(* converter and calls their operations in any order.                     *)

InitFacades ==
    /\ parser = NoInstance
    /\ converter = NoInstance
    /\ pdf_file \in CliFiles
    /\ output_file = "absent"
    /\ kept = NoKept
    /\ res = NoCall

\* the conversions of the program that uses both facades
FewHtmlInputs == { <<"<p>", "x">>, <<"<html", "<p>", "x">> }

FewOptionSets ==
    { o \in OptionSets : o.keys \in { {}, {"css_file"}, {"base_url"} } }

FewHtmlFiles ==
    { f \in HtmlFiles : f.content \in {<<>>, <<"<p>", "x">>} }

ConvertStringFew == ConvertStringWith(FewHtmlInputs, FewOptionSets)

ConvertFileFew == ConvertFileWith(FewHtmlFiles, FewOptionSets)

NextFacades ==
    \/ NewParserFew
    \/ NewConverterFew
    \/ ExtractTextFew
    \/ ExtractByPage
    \/ GetMetadata
    \/ SearchText
    \/ ConvertStringFew
    \/ ConvertFileFew

SpecFacades == InitFacades /\ [][NextFacades]_vars

\* the step is a call of an operation of an instance, not of a constructor
IsOperationStep ==
    res'.op \in {"extract_text", "extract_text_by_page", "get_metadata",
                 "search_text", "convert_string", "convert_file"}

\* C21: the backend an instance stores never changes after construction:
\* every operation of either facade, returning or raising, leaves the
\* backend of both instances as it was, and the backend of every
\* constructed instance is one of the three supported lower-case names of
\* its facade in every reachable state.
C21_BackendImmutable ==
    /\ [](/\ parser.alive => parser.backend \in ParserBackends
          /\ converter.alive => converter.backend \in ConverterBackends)
    /\ [][IsOperationStep =>
            /\ parser' = parser
            /\ converter' = converter]_vars

\* an extraction has raised and a conversion before it has failed, and the
\* instances still hold the backends they were constructed with
C21_Witness ==
    /\ res.op = "convert_string"
    /\ res.r.value = FALSE
    /\ converter.alive
    /\ converter.backend = S_xhtml2pdf
    /\ parser.alive
    /\ parser.backend = S_pypdf
    /\ ~pdf_file.exists


-----------------------------------------------------------------------------
(* The whole text and the text by page of the same file: the caller keeps *)
(* the result of extract_text_from_file and calls extract_text_by_page.   *)

AllPages == { [given |-> FALSE, list |-> <<>>] }

ExtractTextAll == ExtractTextWith(AllPages)

NextAgree ==
    \/ NewParserFew
    \/ ExtractTextAll
    \/ KeepResult
    \/ ExtractByPage

SpecAgree == Init /\ [][NextAgree]_vars

\* the caller holds the result of extract_text over all pages with
\* cleaning and has now called extract_text_by_page with cleaning on the
\* same instance
IsFullThenByPage ==
    /\ IsByPage
    /\ res.args.clean
    /\ kept # NoKept
    /\ kept.backend = parser.backend
    /\ ~kept.call.args.sel.given
    /\ kept.call.args.clean

RECURSIVE BlocksFrom(_, _)
\* header, newline and text of every non-blank entry of by_page from
\* page p on, in ascending page order
BlocksFrom(by_page, p) ==
    IF p \notin DOMAIN by_page THEN <<>>
    ELSE (IF IsBlank(by_page[p]) THEN <<>>
          ELSE << Header(p) \o <<"\n">> \o by_page[p] >>)
         \o BlocksFrom(by_page, p + 1)

\* C22: full extraction and page-by-page extraction agree.  For the same
\* backend and the same PDF file, with cleaning enabled and the same pages
\* failing, extract_text over all pages returns exactly when
\* extract_text_by_page returns, and its text is the "\n\n"-join, in
\* ascending page order, of "--- Page p+1 ---\n" + by_page[p] over the
\* pages p whose entry is not blank.
C22_FullAgreesWithByPage ==
    (IsFullThenByPage /\ IsPdfFile) =>
        /\ kept.call.r.outcome = res.r.outcome
        /\ kept.call.r.exc = res.r.exc
        /\ res.r.outcome = "return" =>
              kept.call.r.text = Join(BlocksFrom(res.r.by_page, 0), S_sep)

\* a document whose first page fails and whose second page has text, read
\* both ways by pdfplumber: one block, numbered 2
C22_Witness ==
    /\ IsFullThenByPage
    /\ IsPdfFile
    /\ parser.backend = S_pdfplumber
    /\ Len(TheDoc.pages) = 2
    /\ TheDoc.pages[1].throws
    /\ res.r.outcome = "return"
    /\ res.r.by_page[0] = <<>>
    /\ res.r.by_page[1] = <<"a", " ", "B">>
    /\ kept.call.r.text = Header(1) \o <<"\n", "a", " ", "B">>


-----------------------------------------------------------------------------
(* The reportlab delegate's walk of the parsed HTML.  The tree that       *)
(* BeautifulSoup gives is a node with a name and children; a text node    *)
(* has the name "#text" and holds a string.                               *)

Text(s) == [name |-> "#text", text |-> s, kids |-> <<>>]

El(name, kids) == [name |-> name, text |-> <<>>, kids |-> kids]

\* BeautifulSoup(html_content, "html.parser")
Soup(kids) == El("[document]", kids)

RECURSIVE ForestText(_)
\* the strings of a sequence of nodes and of their descendants, in
\* document order, concatenated
ForestText(nodes) ==
    IF nodes = <<>> THEN <<>>
    ELSE (IF Head(nodes).name = "#text" THEN Head(nodes).text
          ELSE ForestText(Head(nodes).kids))
         \o ForestText(Tail(nodes))

\* element.get_text()
get_text(element) == ForestText(<<element>>)

RECURSIVE Descendants(_)
\* the descendants of a sequence of nodes, each node before its children
\* and before its later siblings (document order)
Descendants(nodes) ==
    IF nodes = <<>> THEN <<>>
    ELSE <<Head(nodes)>> \o Descendants(Head(nodes).kids)
         \o Descendants(Tail(nodes))

RECURSIVE Outermost(_, _)
\* the elements named in names that lie in no other such element
Outermost(nodes, names) ==
    IF nodes = <<>> THEN <<>>
    ELSE (IF Head(nodes).name \in names THEN <<Head(nodes)>>
          ELSE Outermost(Head(nodes).kids, names))
         \o Outermost(Tail(nodes), names)

\* a search that does not look inside the elements it has found
find_all_outermost(element, names) == Outermost(element.kids, names)

\* element.find_all(names): every descendant with one of the names, in
\* document order
find_all(element, names) ==
    LET Named(n) == n.name \in names
    IN  SelectSeq(Descendants(element.kids), Named)

\* the flowables of the story
Paragraph(text, style) ==
    [kind |-> "Paragraph", text |-> text, style |-> style, rows |-> <<>>]

Spacer(height) ==
    [kind |-> "Spacer", text |-> <<>>, style |-> height, rows |-> <<>>]

Table(rows) ==
    [kind |-> "Table", text |-> <<>>, style |-> "TableStyle", rows |-> rows]

WalkedNames ==
    {"h1", "h2", "h3", "h4", "h5", "h6", "p", "div", "ul", "ol", "table"}

RECURSIVE Flatten(_)
\* the concatenation of a sequence of sequences
Flatten(seqs) ==
    IF seqs = <<>> THEN <<>> ELSE Head(seqs) \o Flatten(Tail(seqs))

\* the bullet or number put before a list item (the bullet characters
\* are written * here): every item of an ordered list gets "1. "
Bullet(list_name) ==
    IF list_name = "ul" THEN <<"*", " ">> ELSE <<"1", ".", " ">>

\* _process_table: the rows of stripped cell texts, empty rows left out,
\* and one Table flowable when there is a row
_process_table(table_element) ==
    LET trs == find_all(table_element, {"tr"})
        Row(tr) == LET cells == find_all(tr, {"td", "th"})
                   IN  [i \in DOMAIN cells |-> Strip(get_text(cells[i]))]
        NonEmpty(row) == row # <<>>
        rows == SelectSeq([i \in DOMAIN trs |-> Row(trs[i])], NonEmpty)
    IN  IF rows # <<>> THEN <<Table(rows)>> ELSE <<>>

\* what one iteration of the loop of _process_html_elements appends to
\* the story
ElementFlowables(element) ==
    IF element.name = "h1"
    THEN <<Paragraph(get_text(element), "CustomTitle"), Spacer(12)>>
    ELSE IF element.name \in {"h2", "h3"}
    THEN <<Paragraph(get_text(element), "CustomSubtitle"), Spacer(8)>>
    ELSE IF element.name \in {"h4", "h5", "h6"}
    THEN <<Paragraph(get_text(element), "Heading3"), Spacer(6)>>
    ELSE IF element.name \in {"p", "div"}
    THEN (IF Strip(get_text(element)) # <<>>
          THEN <<Paragraph(Strip(get_text(element)), "Normal"), Spacer(6)>>
          ELSE <<>>)
    ELSE IF element.name \in {"ul", "ol"}
    THEN LET lis == find_all(element, {"li"})
         IN  [i \in DOMAIN lis |->
                 Paragraph(Bullet(element.name) \o get_text(lis[i]), "Normal")]
             \o <<Spacer(6)>>
    ELSE IF element.name = "table"
    THEN _process_table(element)
    ELSE <<>>

\* HTMLToPDFConverter._process_html_elements: the story after the loop
\* over soup.find_all([...])
_process_html_elements(soup) ==
    LET elements == find_all(soup, WalkedNames)
    IN  Flatten([i \in DOMAIN elements |-> ElementFlowables(elements[i])])

\* the strings of the text nodes
NodeTexts == { <<"a", "B">>, <<"x">>, <<" ">> }

\* a text, or one element around a text
Level1 ==
    { Text(t) : t \in NodeTexts } \cup
    { El(n, <<Text(t)>>) :
        n \in {"h1", "h2", "h4", "p", "div", "li", "span"}, t \in NodeTexts }

\* one element around one or two nodes of the first level
Level2 ==
    { El(n, <<k>>) : n \in {"div", "p", "ul", "ol", "body"}, k \in Level1 }
    \cup
    { El(n, <<j, k>>) :
        n \in {"div", "ul"},
        j \in { El("p", <<Text(<<"x">>)>>), El("li", <<Text(<<"x">>)>>) },
        k \in Level1 }

\* a list in a container, a list in an item of another list, and tables
Nested ==
    { El(c, <<El(l, <<El("li", <<Text(t)>>)>>)>>) :
        c \in {"div", "span"}, l \in {"ul", "ol"}, t \in NodeTexts } \cup
    { El(o, <<El("li", <<Text(<<"x">>),
                         El(i, <<El("li", <<Text(t)>>)>>)>>)>>) :
        o \in {"ul", "ol"}, i \in {"ul", "ol"}, t \in NodeTexts } \cup
    { El(c, <<El("table", <<El("tr", cells)>>)>>) :
        c \in {"div", "body"},
        cells \in { <<>>,
                    <<El("th", <<Text(<<" ", "x">>)>>)>>,
                    <<El("td", <<Text(<<"a", "B">>)>>),
                      El("td", <<El("p", <<Text(<<"x">>)>>)>>)>> } }

\* the parsed documents
Soups ==
    {Soup(<<>>)} \cup { Soup(<<k>>) : k \in Level1 \cup Level2 \cup Nested }

\* _process_html_elements(soup, story, ...) on the tree held in res
ProcessHtmlElements ==
    /\ res.op = "none"
    /\ res' = Call("_process_html_elements", res.args,
                   _process_html_elements(res.args.soup))
    /\ UNCHANGED <<kept, parser, converter, pdf_file, output_file>>

InitWalk ==
    /\ parser = NoInstance
    /\ converter = [alive |-> TRUE, backend |-> S_reportlab, page_cache |-> {}]
    /\ pdf_file = DefaultFile
    /\ output_file = "absent"
    /\ kept = NoKept
    /\ \E soup \in Soups : res = Call("none", [soup |-> soup], <<>>)

NextWalk == ProcessHtmlElements

SpecWalk == InitWalk /\ [][NextWalk]_vars


-----------------------------------------------------------------------------
(* HTML to PDF to text: a converter writes a PDF from a document and a    *)
(* parser then reads that file.                                           *)

\* the opening tag of an element as it stands in the markup
OpenTag(name) ==
    CASE name = "h1" -> "<h1>"       [] name = "h2" -> "<h2>"
      [] name = "h4" -> "<h4>"       [] name = "p" -> "<p>"
      [] name = "div" -> "<div>"     [] name = "span" -> "<span>"
      [] name = "ul" -> "<ul>"       [] name = "ol" -> "<ol>"
      [] name = "li" -> "<li>"       [] name = "body" -> "<body>"
      [] name = "table" -> "<table>" [] name = "tr" -> "<tr>"
      [] name = "th" -> "<th>"       [] name = "td" -> "<td>"

RECURSIVE Markup(_)
\* the HTML text that parses to the nodes: the tokens of html_content
Markup(nodes) ==
    IF nodes = <<>> THEN <<>>
    ELSE (IF Head(nodes).name = "#text" THEN Head(nodes).text
          ELSE <<OpenTag(Head(nodes).name)>> \o Markup(Head(nodes).kids)
               \o <<"</>">>)
         \o Markup(Tail(nodes))

\* the texts the flowables of a story put on the page, one per line
StoryLines(story) ==
    LET Lines(f) == IF f.kind = "Paragraph" THEN <<f.text>>
                    ELSE IF f.kind = "Table" THEN Flatten(f.rows)
                    ELSE <<>>
    IN  Flatten([i \in DOMAIN story |-> Lines(story[i])])

\* the PDF a conversion that succeeds writes, with engines that lose
\* nothing of what they are given: doc.build(story) lays out the story,
\* write_pdf and CreatePDF lay out every text of the document
RenderedDoc(backend, soup) ==
    LET text == IF backend = S_reportlab
                THEN Join(StoryLines(_process_html_elements(soup)), <<"\n">>)
                ELSE ForestText(soup.kids)
    IN  Doc("ok", << [throws |-> FALSE, text |-> text] >>, <<>>, 0)

NoOptions == CHOOSE o \in OptionSets : o.keys = {}

\* ok = converter.convert_html_string(html_content, output_file), the
\* caller keeping the call; the output file then is the PDF file
ConvertSoup ==
    /\ converter.alive
    /\ res.op = "none"
    /\ \E engine \in EngineOutcomes(converter.backend) :
          LET soup == res.args.soup
              html_content == Markup(soup.kids)
              r == convert_html_string(converter.backend, html_content,
                                       output_file, NoOptions, engine)
              call == Call("convert_string",
                           [html_content |-> html_content, soup |-> soup,
                            options |-> NoOptions, engine |-> engine,
                            out_before |-> output_file], r)
          IN  /\ res' = call
              /\ kept' = [call |-> call, backend |-> converter.backend]
              /\ output_file' = r.out
              /\ pdf_file' =
                    IF r.value = TRUE
                    THEN [exists |-> TRUE, suffix |-> S_dot_pdf,
                          doc |-> RenderedDoc(converter.backend, soup)]
                    ELSE IF r.out = "partial"
                         THEN [exists |-> TRUE, suffix |-> S_dot_pdf,
                               doc |-> NoDoc]
                    ELSE pdf_file
    /\ UNCHANGED <<parser, converter>>

InitRoundTrip ==
    /\ \E backend \in ParserBackends :
          parser = [alive |-> TRUE, backend |-> backend, page_cache |-> {}]
    /\ \E backend \in ConverterBackends :
          converter = [alive |-> TRUE, backend |-> backend, page_cache |-> {}]
    /\ pdf_file = [exists |-> FALSE, suffix |-> S_dot_pdf, doc |-> NoDoc]
    /\ output_file = "absent"
    /\ kept = NoKept
    /\ \E soup \in Soups : res = Call("none", [soup |-> soup], <<>>)

NextRoundTrip ==
    \/ ConvertSoup
    \/ ExtractTextAll

SpecRoundTrip == InitRoundTrip /\ [][NextRoundTrip]_vars

\* the PDF file was written by a conversion that returned True and has
\* now been read by extract_text
IsRoundTrip ==
    /\ IsExtractText
    /\ kept # NoKept
    /\ kept.call.r.value = TRUE

\* the text of the first h1 element of the document
Title(soup) ==
    LET h1s == find_all(soup, {"h1"})
    IN  IF h1s = <<>> THEN <<>> ELSE get_text(h1s[1])

\* sub occurs in text
Contains(text, sub) ==
    \E i \in 1..(Len(text) - Len(sub) + 1) :
        SubSeq(text, i, i + Len(sub) - 1) = sub

\* C23: round trip.  For every PDF written by a successful conversion
\* with any conversion backend, extract_text with any extraction backend
\* returns a non-empty string that contains the title text of the
\* document.
C23_RoundTrip ==
    IsRoundTrip =>
        /\ res.r.outcome = "return"
        /\ res.r.text # <<>>
        /\ Contains(res.r.text, Title(kept.call.args.soup))

\* the same for documents whose text is lost on the way, to tell the two
\* losses apart: a text outside every element the reportlab delegate
\* walks, and a title the cleaning pass rewrites
C23_LostByWalk ==
    /\ IsRoundTrip
    /\ kept.backend = S_reportlab
    /\ kept.call.args.soup = Soup(<<El("span", <<Text(<<"x">>)>>)>>)
    /\ res.r.text = <<>>

C23_LostByCleaning ==
    /\ IsRoundTrip
    /\ kept.backend = S_weasyprint
    /\ kept.call.args.soup = Soup(<<El("h1", <<Text(<<"a", "B">>)>>)>>)
    /\ res.args.clean
    /\ res.r.text = Header(0) \o <<"\n", "a", " ", "B">>


\* the HTML the caller supplied begins, after leading whitespace, with a
\* doctype (in either case) or an html root tag
IsFullDocument(html_content) ==
    \E token \in {"<!DOCTYPE", "<!doctype", "<html"} :
        StartsWith(Strip(html_content), token)

\* the engine was given the synthesized skeleton with its @page rule
IsWrapped(engine_input) ==
    \E i \in DOMAIN engine_input : engine_input[i] = "@page"

\* convert_string of the xhtml2pdf backend got as far as CreatePDF
ReachedPisa ==
    /\ IsConvertString
    /\ converter.backend = S_xhtml2pdf
    /\ res.args.engine # "import_fails"
    /\ ~CssFileFails(res.args.options)

\* C24: the xhtml2pdf delegate wraps the input in the synthesized
\* full-document skeleton if and only if the HTML the caller supplied is
\* not already a full document; a full document reaches the engine
\* without the wrapper, with or without a css_file or css_string option.
C24_WrapperIffFragment ==
    ReachedPisa =>
        (IsWrapped(res.r.engine_input) <=> ~IsFullDocument(res.args.html_content))

\* a full document given with css_string: the style block is put in front
\* of the doctype and the whole is wrapped in a second document
C24_FullDocumentWrapped ==
    /\ ReachedPisa
    /\ res.args.html_content = <<"<!DOCTYPE", "<html", "<p>", "x">>
    /\ res.args.options.keys = {"css_string"}
    /\ IsWrapped(res.r.engine_input)
    /\ SubSeq(res.r.engine_input, 13, 16) = <<"<style>", "p{}", "</style>", "<!DOCTYPE">>


\* the characters of s that are no whitespace, in their order
NonSpace(s) ==
    LET Solid(c) == ~IsSpace(c)
    IN  SelectSeq(s, Solid)

\* C25: for every non-empty input the output of the cleaning pass has no
\* leading or trailing whitespace, no two adjacent whitespace characters
\* and no whitespace character other than the single space, no sentence
\* end ('.', '!', '?') immediately followed by an upper-case ASCII letter
\* and no lower-case ASCII letter immediately followed by an upper-case
\* one; the non-whitespace characters of the input appear in the output
\* unchanged and in the same order.
C25_CleanShape ==
    (IsCleanText /\ res.args.text \notin {None, <<>>}) =>
        LET out == res.r.text
            n == Len(out)
        IN  /\ n > 0 => ~IsSpace(out[1]) /\ ~IsSpace(out[n])
            /\ \A i \in 1..n : IsSpace(out[i]) => out[i] = " "
            /\ \A i \in 1..(n - 1) :
                  /\ ~(IsSpace(out[i]) /\ IsSpace(out[i + 1]))
                  /\ ~(IsSentenceEnd(out[i]) /\ IsUpper(out[i + 1]))
                  /\ ~(IsLower(out[i]) /\ IsUpper(out[i + 1]))
            /\ NonSpace(out) = NonSpace(res.args.text)

\* ".B\na" cleaned to ". B a": a space put in after the sentence end, the
\* newline turned into a space
C25_Witness ==
    /\ IsCleanText
    /\ ~res.args.again
    /\ res.args.text = <<".", "B", "\n", "a">>
    /\ res.r.text = <<".", " ", "B", " ", "a">>


\* C26: every document or file handle opened by extract_text,
\* extract_text_by_page or get_metadata, with any backend, is released
\* before the operation returns or raises, on every path, a page that
\* fails and an engine failure after the document was opened (such as
\* reading the page count) included.
C26_HandlesReleased ==
    (IsExtractText \/ IsByPage \/ IsGetMetadata) => ~res.r.leaked

\* the page count of an opened document cannot be read: extract_text of
\* the pymupdf backend raises with the document still open
C26_HandleLeft ==
    /\ IsExtractText
    /\ parser.backend = S_pymupdf
    /\ IsPdfFile
    /\ TheDoc.status = "count_fails"
    /\ res.r.outcome = "raise"
    /\ res.r.leaked


\* the run got past click's check of the path and the construction of the
\* parser
InBody ==
    /\ IsPdf2Text
    /\ pdf_file.exists
    /\ parser_init(res.args.backend, res.args.fitz_ok).outcome = "return"

\* only the metadata were read, nothing else done
MetadataOnly ==
    /\ res.r.calls = <<"get_pdf_metadata">>
    /\ res.r.stdout \in {"metadata", ""}
    /\ res.r.err # "hint"
    /\ ~res.r.extracted
    /\ ~res.r.wrote

\* only the search was made
SearchOnly ==
    /\ res.r.calls = <<"search_text">>
    /\ res.r.stdout \in {"matches", ""}
    /\ res.r.err # "hint"
    /\ ~res.r.extracted
    /\ ~res.r.wrote

\* the page string was parsed, and the text extracted unless the hint was
\* printed; the output file is written only with --output
PagesThenText ==
    /\ res.r.err = "hint" <=> ParsePages(res.args.pages).hint
    /\ res.r.err = "hint" => res.r.exit_code = 1 /\ res.r.calls = <<>>
    /\ res.r.err # "hint" => res.r.calls = <<"extract_text_from_file">>
    /\ res.r.wrote => res.args.output # None /\ res.r.exit_code = 0

\* C27 as stated: with --metadata only the metadata are printed whatever
\* else is given; otherwise with --search only the search result; only
\* when neither is given is the page string parsed and the text
\* extracted, so a malformed --pages value gives exit code 1 only then.
C27_AsStated ==
    InBody =>
        /\ res.args.metadata => MetadataOnly
        /\ (~res.args.metadata /\ res.args.search # None) => SearchOnly
        /\ (~res.args.metadata /\ res.args.search = None) => PagesThenText
        /\ res.r.err = "hint" =>
              ~res.args.metadata /\ res.args.search = None

\* C27: the modes of pdf2text are tried in a fixed order and each
\* short-circuits the rest.  With --metadata only the metadata are
\* printed (no search, no page parsing, no extraction, no output file),
\* whatever else is given; otherwise with a non-empty --search value only
\* the search result is printed; otherwise, that is without --search or
\* with an empty --search value, the page string is parsed and the text
\* extracted, so a malformed --pages value gives exit code 1 in that last
\* mode only.
C27_ModesInOrder ==
    InBody =>
        /\ res.args.metadata => MetadataOnly
        /\ (~res.args.metadata /\ Truthy(res.args.search)) => SearchOnly
        /\ (~res.args.metadata /\ ~Truthy(res.args.search)) => PagesThenText
        /\ res.r.err = "hint" =>
              ~res.args.metadata /\ ~Truthy(res.args.search)

\* --metadata given together with --search, a malformed --pages and
\* --output: the metadata are printed and the run ends with code 0
C27_Witness ==
    /\ InBody
    /\ res.args.metadata
    /\ res.args.search = <<"a">>
    /\ res.args.pages = <<"x">>
    /\ res.args.output = <<"o">>
    /\ res.r.exit_code = 0
    /\ res.r.stdout = "metadata"
    /\ res.r.calls = <<"get_pdf_metadata">>
    /\ ~res.r.wrote


\* C28: for every record returned by search_text the matched substring
\* occurs inside the record's context, although the context window is
\* stripped after slicing: the searched page text is the cleaned text,
\* which neither begins nor ends with whitespace and has no whitespace
\* run longer than one, so stripping removes no character of the match.
C28_MatchInsideContext ==
    IsSearchText /\ res.r.outcome = "return" =>
        \A k \in 1..Len(res.r.matches) :
            LET m == res.r.matches[k]
                text == SearchedText(m.page - 1)
            IN  /\ Contains(m.context, m.match)
                /\ OccursAt(text, m.match, m.position)
                /\ Len(Window(m)) - Len(m.context) <= 2
                /\ text # <<>> /\ ~IsSpace(text[1]) /\ ~IsSpace(text[Len(text)])

\* a query that is a space, found in "  aB" cleaned to "a B": the match
\* is whitespace and is still inside the stripped context
C28_Witness ==
    /\ IsSearchText /\ res.r.outcome = "return"
    /\ res.args.query = <<" ">>
    /\ Len(TheDoc.pages) = 1
    /\ TheDoc.pages[1].text = <<" ", " ", "a", "B">>
    /\ Len(res.r.matches) = 1
    /\ res.r.matches[1].match = <<" ">>
    /\ res.r.matches[1].position = 1
    /\ res.r.matches[1].context = <<"a", " ", "B">>


\* C29: search_text with the empty query returns, for each page whose
\* cleaned text is non-empty with length L, exactly L + 1 records with a
\* zero-length match, one at every position 0..L in ascending order, and
\* no record for a page whose text is empty; the result is empty only
\* when every page text is.
C29_EmptyQuery ==
    (IsSearchText /\ res.args.query = <<>> /\ res.r.outcome = "return") =>
        /\ \A n \in 0..(Len(TheDoc.pages) - 1) :
              LET L == Len(SearchedText(n))
                  recs == RecordsOn(res.r.matches, n + 1)
              IN  /\ Len(recs) = IF L = 0 THEN 0 ELSE L + 1
                  /\ \A k \in 1..Len(recs) :
                        recs[k].position = k - 1 /\ recs[k].match = <<>>
        /\ \A k \in 1..(Len(res.r.matches) - 1) :
              res.r.matches[k].page <= res.r.matches[k + 1].page
        /\ res.r.matches = <<>> <=>
              \A n \in 0..(Len(TheDoc.pages) - 1) : SearchedText(n) = <<>>

\* the empty query on a page that fails followed by "aaa": four records,
\* at the positions 0..3 of page 2
C29_Witness ==
    /\ IsSearchText /\ res.r.outcome = "return"
    /\ res.args.query = <<>>
    /\ Len(TheDoc.pages) = 2
    /\ TheDoc.pages[1].throws
    /\ SearchedText(1) = <<"a", "a", "a">>
    /\ Len(res.r.matches) = 4
    /\ \A k \in 1..4 : res.r.matches[k].page = 2
                       /\ res.r.matches[k].position = k - 1


IsWalk == res.op = "_process_html_elements"

Headings == {"h1", "h2", "h3", "h4", "h5", "h6"}

\* the visit of the element ends with a spacer: a heading, a list, or a
\* p or div whose text is not blank
EndsWithSpacer(node) ==
    \/ node.name \in Headings \cup {"ul", "ol"}
    \/ node.name \in {"p", "div"} /\ ~IsBlank(get_text(node))

RECURSIVE CountSpacerVisits(_)
\* the number of such elements among the nodes and all their descendants
CountSpacerVisits(nodes) ==
    IF nodes = <<>> THEN 0
    ELSE (IF EndsWithSpacer(Head(nodes)) THEN 1 ELSE 0)
         + CountSpacerVisits(Head(nodes).kids)
         + CountSpacerVisits(Tail(nodes))

\* the paragraph the visit of a heading or of a p appends
OwnParagraph(element) ==
    IF element.name = "h1" THEN Paragraph(get_text(element), "CustomTitle")
    ELSE IF element.name \in {"h2", "h3"}
    THEN Paragraph(get_text(element), "CustomSubtitle")
    ELSE IF element.name \in Headings
    THEN Paragraph(get_text(element), "Heading3")
    ELSE Paragraph(Strip(get_text(element)), "Normal")

\* the story holds first and, after it, second
InOrder(story, first, second) ==
    \E i \in DOMAIN story, j \in DOMAIN story :
        i < j /\ story[i] = first /\ story[j] = second

\* C30: the reportlab delegate visits every heading, p, div, ul, ol and
\* table element of the tree in document order whatever it is nested in,
\* so the text of an element inside a walked container is emitted more
\* than once: a p, a heading or a list inside a div is emitted as part of
\* the paragraph of the div's text and again by its own visit, and the
\* items of a list nested in another list are emitted for the outer list
\* and again for the inner list.
C30_NestedTextRepeated ==
    IsWalk =>
        LET soup == res.args.soup
            story == res.r
            all == Descendants(soup.kids)
            Spacers == { i \in DOMAIN story : story[i].kind = "Spacer" }
        IN  /\ Cardinality(Spacers) = CountSpacerVisits(soup.kids)
            /\ \A d \in DOMAIN all :
                  LET inside == Descendants(all[d].kids) IN
                  \A e \in DOMAIN inside :
                      /\ ( /\ all[d].name = "div"
                           /\ inside[e].name \in Headings \cup {"p"}
                           /\ ~IsBlank(get_text(inside[e])) ) =>
                            /\ Contains(Strip(get_text(all[d])),
                                        Strip(get_text(inside[e])))
                            /\ InOrder(story,
                                   Paragraph(Strip(get_text(all[d])), "Normal"),
                                   OwnParagraph(inside[e]))
                      /\ ( /\ all[d].name \in {"div", "ul", "ol"}
                           /\ inside[e].name \in {"ul", "ol"} ) =>
                            LET lis == find_all(inside[e], {"li"}) IN
                            \A k \in DOMAIN lis :
                                InOrder(story,
                                    IF all[d].name = "div"
                                    THEN Paragraph(Strip(get_text(all[d])), "Normal")
                                    ELSE Paragraph(Bullet(all[d].name)
                                                   \o get_text(lis[k]), "Normal"),
                                    Paragraph(Bullet(inside[e].name)
                                              \o get_text(lis[k]), "Normal"))
                                \/ (all[d].name = "div" /\ IsBlank(get_text(all[d])))

\* a div holding a p and an h1: the story has the paragraph of the div's
\* whole text, then the paragraph of the p, then that of the h1
C30_Witness ==
    /\ IsWalk
    /\ res.args.soup = Soup(<<El("div", <<El("p", <<Text(<<"x">>)>>),
                                          El("h1", <<Text(<<"a", "B">>)>>)>>)>>)
    /\ res.r = << Paragraph(<<"x", "a", "B">>, "Normal"), Spacer(6),
                  Paragraph(<<"x">>, "Normal"), Spacer(6),
                  Paragraph(<<"a", "B">>, "CustomTitle"), Spacer(12) >>

\* a list in an item of another list: the inner item is emitted for the
\* outer list and again for the inner list
C30_NestedList ==
    /\ IsWalk
    /\ res.args.soup =
          Soup(<<El("ul", <<El("li", <<Text(<<"x">>),
                     El("ol", <<El("li", <<Text(<<"a", "B">>)>>)>>)>>)>>)>>)
    /\ res.r = << Paragraph(<<"*", " ", "x", "a", "B">>, "Normal"),
                  Paragraph(<<"*", " ", "a", "B">>, "Normal"), Spacer(6),
                  Paragraph(<<"1", ".", " ", "a", "B">>, "Normal"), Spacer(6) >>

=============================================================================
